---- MODULE Spec2Model ----
(***************************************************************************)
(* A model of libvssdag's signal evaluator: the dependency graph           *)
(* (SignalDAG::build, topological_sort, propagate_update_flag) and the     *)
(* two-phase processing loop (SignalProcessorDAG::process_signal_updates)  *)
(* with the generated Lua transforms it drives.                            *)
(*                                                                         *)
(* Two specifications share the module:                                    *)
(*   SpecDAG  builds the graph of every small mapping set;                 *)
(*   Spec     runs the evaluator on a handful of mapping sets.             *)
(***************************************************************************)
EXTENDS Integers, Sequences, FiniteSets, TLC

VARIABLES
    mappings,                     \* the mapping set handed to build()/initialize()
    iter_order,                   \* iteration order of the unordered_map of mappings
    dag,                          \* SignalDAG: nodes_, dependents, in_degree, processing_order_
    signal_values_,               \* SignalProcessorDAG::signal_values_ (authoritative store)
    lua_signal_values,            \* Lua global signal_values (script-side mirror)
    signal_states,                \* Lua global signal_states (per-signal operator state)
    signals_pending_reevaluation, \* Lua global of the same name
    node_rt,                      \* SignalNode runtime scalars, per node
    clock,                        \* std::chrono::steady_clock, in milliseconds
    last_rx,                      \* history: the most recent update received per input
    phase2_changes,               \* history: the dependents a phase-2 change has not reached yet
    returned,                     \* whether the last call's result is still with the caller
    batch,                        \* history: the updates handed to the last call
    valid_emitted,                \* history: the nodes with a VALID record in an earlier call
    last_mark,                    \* history: the last mark_can_signal_updated call on the graph
    dbc_parser,                   \* DBCParser: the parsed network and signal_info_
    dbc_call,                     \* history: the last call made on the DBCParser
    can_source,                   \* CANSignalSource: subscriptions, name table, queue, running_
    can_reader,                   \* SocketCANReader and the reader thread that runs read_loop
    caller,                       \* the threads that call poll() and stop(), and their locals
    bus,                          \* the frames still to arrive on the CAN bus
    lua_lib,                      \* one signal's use of a built-in Lua operator, and the clocks
    type_call,                    \* the last conversion made by VSSTypeHelper / LuaMapper
    vss_signals,                  \* the records returned by the last process_signal_updates
    executions                    \* history: the process_node calls of the last call

\* The variables of the evaluator and of the graph.
evaluator == <<mappings, iter_order, dag, signal_values_, lua_signal_values, signal_states,
               signals_pending_reevaluation, node_rt, clock, last_rx, phase2_changes, returned, batch,
               valid_emitted, last_mark, vss_signals, executions>>

\* The variables of the wire decoder and of the bus ingress.
ingress == <<dbc_parser, dbc_call, can_source, can_reader, caller, bus>>

\* The variables of the built-in Lua operators and of the value conversions,
\* taken on their own.
library == <<lua_lib, type_call>>

vars == <<evaluator, ingress, library>>

\* No operator and no conversion is exercised on its own.
LibraryIdle ==
    /\ lua_lib = <<>>
    /\ type_call = <<>>

\* No decoder and no bus ingress exist.
IngressIdle ==
    /\ dbc_parser = <<>>
    /\ dbc_call = <<>>
    /\ can_source = <<>>
    /\ can_reader = <<>>
    /\ caller = <<>>
    /\ bus = <<>>

(***************************************************************************)
(* Generic helpers                                                         *)
(***************************************************************************)
Range(s) == {s[i] : i \in DOMAIN s}

IndexOf(s, x) == IF x \in Range(s) THEN CHOOSE i \in DOMAIN s : s[i] = x ELSE 0

Count(s, x) == Cardinality({i \in DOMAIN s : s[i] = x})

\* The one element of a singleton set.  Only({e(x) : x \in {v}}) evaluates v once
\* and then e, where LET x == v IN e would evaluate v at every use of x.
Only(S) == CHOOSE x \in S : TRUE

Put(f, k, v) == [x \in DOMAIN f \cup {k} |-> IF x = k THEN v ELSE f[x]]

SeqsUpTo(S, n) == UNION {[1..k -> S] : k \in 0..n}

RECURSIVE Concat(_, _)
Concat(ss, i) == IF i > Len(ss) THEN <<>> ELSE ss[i] \o Concat(ss, i + 1)

\* The names of S listed in the fixed order of AllNames, ascending or descending.
AllNames == <<"A", "B", "C", "D">>

Ascending(S) == SelectSeq(AllNames, LAMBDA n : n \in S)

RECURSIVE Reverse(_)
Reverse(s) == IF s = <<>> THEN <<>> ELSE Append(Reverse(Tail(s)), Head(s))

(***************************************************************************)
(* SignalDAG::build                                                        *)
(***************************************************************************)
\* The value of mapping.provides when the mapping names none.
NoProvides == ""

\* node->provides = mapping.provides.empty() ? signal_name : mapping.provides
ProvidesOf(ms, name) ==
    IF ms[name].provides = NoProvides THEN name ELSE ms[name].provides

\* First pass: one node per mapping, in iteration order; a second provider of a
\* name already provided ends build() with false.
RECURSIVE FirstPass(_, _, _, _)
FirstPass(ms, order, i, acc) ==
    IF i > Len(order) THEN acc
    ELSE LET name == order[i]
             provides == ProvidesOf(ms, name)
         IN  IF provides \in DOMAIN acc.provider_map
             THEN [acc EXCEPT !.ok = FALSE]
             ELSE FirstPass(ms, order, i + 1,
                      [acc EXCEPT !.nodes = Append(@, name),
                                  !.provider_map = Put(@, provides, name)])

\* The (node, dep) pairs in the order the second pass visits them.
DependencyEdges(ms, nodes) ==
    Concat([i \in DOMAIN nodes |->
               [j \in DOMAIN ms[nodes[i]].depends_on |->
                   [node |-> nodes[i], dep |-> ms[nodes[i]].depends_on[j]]]], 1)

\* A second pass that skips a depends_on entry nobody provides.
RECURSIVE SecondPassSkippingUnknown(_, _, _, _)
SecondPassSkippingUnknown(edges, i, provider_map, acc) ==
    IF i > Len(edges) THEN acc
    ELSE LET e == edges[i]
         IN  IF e.dep \notin DOMAIN provider_map
             THEN SecondPassSkippingUnknown(edges, i + 1, provider_map, acc)
             ELSE SecondPassSkippingUnknown(edges, i + 1, provider_map,
                      [acc EXCEPT !.dependents[provider_map[e.dep]] = Append(@, e.node),
                                  !.in_degree[e.node] = @ + 1])

\* Second pass: for each depends_on entry look the provider up; unknown ends
\* build() with false; else the node joins the provider's dependents and its
\* in_degree grows by one (once per entry, duplicates included).
RECURSIVE SecondPass(_, _, _, _)
SecondPass(edges, i, provider_map, acc) ==
    IF i > Len(edges) THEN acc
    ELSE LET e == edges[i]
         IN  IF e.dep \notin DOMAIN provider_map
             THEN [acc EXCEPT !.ok = FALSE]
             ELSE SecondPass(edges, i + 1, provider_map,
                      [acc EXCEPT !.dependents[provider_map[e.dep]] = Append(@, e.node),
                                  !.in_degree[e.node] = @ + 1])

\* The inner loop of topological_sort: decrement every dependent's in-degree,
\* queueing the ones that reach zero.
RECURSIVE ReleaseDependents(_, _, _, _)
ReleaseDependents(deps, i, in_degrees, queue) ==
    IF i > Len(deps) THEN [in_degrees |-> in_degrees, queue |-> queue]
    ELSE LET d == deps[i]
             dec == [in_degrees EXCEPT ![d] = @ - 1]
         IN  ReleaseDependents(deps, i + 1, dec,
                 IF dec[d] = 0 THEN Append(queue, d) ELSE queue)

\* The while loop of topological_sort (Kahn's algorithm on a FIFO queue).
RECURSIVE KahnLoop(_, _, _, _)
KahnLoop(queue, order, in_degrees, dependents) ==
    IF queue = <<>> THEN order
    ELSE LET node == Head(queue)
             r == ReleaseDependents(dependents[node], 1, in_degrees, Tail(queue))
         IN  KahnLoop(r.queue, Append(order, node), r.in_degrees, dependents)

\* A processing order that keeps the nodes as the first pass created them.
TopologicalSortAsCreated(nodes, in_degree, dependents) == nodes

\* topological_sort: the processing order; the caller compares its length with
\* the node count.
TopologicalSort(nodes, in_degree, dependents) ==
    KahnLoop(SelectSeq(nodes, LAMBDA n : in_degree[n] = 0), <<>>, in_degree, dependents)

\* The graph before build(): nothing built.
EmptyDag ==
    [built |-> FALSE, ok |-> FALSE, nodes |-> <<>>, provider_map |-> <<>>,
     dependents |-> <<>>, in_degree |-> <<>>, processing_order |-> <<>>]

\* SignalDAG::build(mappings), iterating the map in `order`.
Build(ms, order) ==
    LET p1 == FirstPass(ms, order, 1,
                  [ok |-> TRUE, nodes |-> <<>>, provider_map |-> <<>>])
        names == Range(p1.nodes)
        p2 == SecondPass(DependencyEdges(ms, p1.nodes), 1, p1.provider_map,
                  [ok |-> TRUE,
                   dependents |-> [n \in names |-> <<>>],
                   in_degree |-> [n \in names |-> 0]])
        sorted == TopologicalSort(p1.nodes, p2.in_degree, p2.dependents)
        base == [built |-> TRUE, ok |-> FALSE, nodes |-> p1.nodes,
                 provider_map |-> p1.provider_map,
                 dependents |-> <<>>, in_degree |-> <<>>, processing_order |-> <<>>]
    IN  IF ~p1.ok THEN base
        ELSE IF ~p2.ok THEN [base EXCEPT !.dependents = p2.dependents,
                                         !.in_degree = p2.in_degree]
        ELSE [base EXCEPT !.ok = (Len(sorted) = Len(p1.nodes)),
                          !.dependents = p2.dependents,
                          !.in_degree = p2.in_degree,
                          !.processing_order = sorted]

(***************************************************************************)
(* Values, qualities and the other program constants                       *)
(***************************************************************************)
\* Lua nil / std::monostate / an empty std::optional: no value.
Nil == 0 - 1

\* std::chrono::steady_clock::time_point::min(): never happened.
NeverTime == 0 - 1

\* Quality codes, as the scripts see them.
STATUS_UNKNOWN == 0
STATUS_VALID == 1
STATUS_INVALID == 2
STATUS_NOT_AVAILABLE == 3

\* What extract_vss_signal_from_stack reads a status field as when the field is
\* no number: the Lua string 'invalid' the ValueMapping transform of a derived
\* node stores.  Kept apart from the integer codes.
StatusStringInvalid == 0 - 2

\* Invalid-input strategies of lowpass.
STRATEGY_PROPAGATE == 0
STRATEGY_HOLD == 1
STRATEGY_HOLD_TIMEOUT == 2

\* The hold time of STRATEGY_HOLD_TIMEOUT, in seconds.
DEFAULT_HOLD_TIMEOUT == 5

\* The placeholder process_node hands to Lua for a non-VALID or absent input and
\* for every derived node (input_value = 0.0).
DummyInput == 0

\* Transform kinds (std::variant<DirectMapping, CodeTransform, ValueMapping>).
Direct == [kind |-> "Direct", code |-> "", multiline |-> FALSE, table |-> <<>>]

Code(c, ml) == [kind |-> "Code", code |-> c, multiline |-> ml, table |-> <<>>]

ValueMap(t) == [kind |-> "ValueMapping", code |-> "", multiline |-> FALSE, table |-> t]

\* SignalSource: where a signal comes from; empty strings when it has no source.
NoSource == [type |-> "", name |-> ""]

DbcSource(name) == [type |-> "dbc", name |-> name]

\* SignalSource::is_input_signal
SourceIsInputSignal(source) == source.type # "" /\ source.name # ""

\* A SignalMapping.  The mapping sets give a source to the mappings without
\* dependencies, as the configurations of the tests do.
Mapping(deps, tr, ms, trig) ==
    [depends_on |-> deps, provides |-> NoProvides, transform |-> tr,
     interval_ms |-> ms, update_trigger |-> trig,
     source |-> IF deps = <<>> THEN DbcSource("Sig") ELSE NoSource]

(***************************************************************************)
(* The Lua side: built-in operators and the generated transform functions  *)
(***************************************************************************)
\* The delay, in milliseconds, of the delayed() transform of the mapping sets.
DelayMs == 1

\* signal_states[name] before the signal's first get_state(): every field nil.
FreshState ==
    [lp |-> Nil, last_valid_output |-> Nil, invalid_since |-> Nil,
     sc_start |-> Nil, re_last |-> "nil", fe_last |-> "nil",
     delay_target_value |-> Nil, delay_start_time |-> Nil,
     delay_pending |-> FALSE, delay_output_value |-> Nil,
     ma_hist |-> <<>>, ma_sum |-> 0]

\* What evaluating a transform's expression yields: a runtime error or a result
\* (Nil for nil), the signal's state afterwards, and what it did to its entry of
\* signals_pending_reevaluation ("mark", "clear" or "keep").
Raised(st) == [err |-> TRUE, result |-> Nil, st |-> st, pend |-> "keep"]

Returned(v, st, pend) == [err |-> FALSE, result |-> v, st |-> st, pend |-> pend]

\* A hold that never runs out.
HoldTimedOutNever(invalid_duration) == FALSE

\* not (invalid_duration < DEFAULT_HOLD_TIMEOUT), the duration in milliseconds.
HoldTimedOut(invalid_duration) == ~(invalid_duration < DEFAULT_HOLD_TIMEOUT * 1000)

\* lowpass(value, alpha, invalid_strategy); now is _current_time in milliseconds.
Lowpass(value, alpha, invalid_strategy, st, now) ==
    IF value = Nil
    THEN CASE invalid_strategy = STRATEGY_HOLD ->
                Returned(st.last_valid_output, st, "keep")
           [] invalid_strategy = STRATEGY_HOLD_TIMEOUT ->
                LET invalid_since == IF st.invalid_since = Nil THEN now
                                     ELSE st.invalid_since
                    st1 == [st EXCEPT !.invalid_since = invalid_since]
                IN  IF HoldTimedOut(now - invalid_since)
                    THEN Returned(Nil, st1, "keep")
                    ELSE Returned(st.last_valid_output, st1, "keep")
           [] OTHER -> Returned(Nil, st, "keep")
    ELSE LET lp == IF st.lp = Nil THEN value
                   ELSE alpha * value + (1 - alpha) * st.lp
         IN  Returned(lp, [st EXCEPT !.invalid_since = Nil, !.lp = lp,
                                     !.last_valid_output = lp], "keep")

\* Lua values other than numbers, for the operators that test truth: nil and
\* false are falsy, everything else is truthy.
LuaNil == "nil"

LuaFalse == "false"

LuaTrue == "true"

Truthy(v) == v \notin {LuaNil, LuaFalse}

\* a and b, a or b, not a
LuaAnd(a, b) == IF Truthy(a) THEN b ELSE a

LuaNot(a) == IF Truthy(a) THEN LuaFalse ELSE LuaTrue

\* The clock sustained_condition reads: os.clock() * 1000, the CPU time of the
\* process in milliseconds.
SustainedClock(current_time, os_clock) == os_clock

\* sustained_condition(condition, duration_ms); the result is a boolean.
SustainedCondition(condition, duration_ms, st, now) ==
    IF Truthy(condition)
    THEN LET sc_start == IF st.sc_start = Nil THEN now ELSE st.sc_start
         IN  Returned(IF now - sc_start >= duration_ms THEN LuaTrue ELSE LuaFalse,
                      [st EXCEPT !.sc_start = sc_start], "keep")
    ELSE Returned(LuaFalse, [st EXCEPT !.sc_start = Nil], "keep")

\* rising_edge(value): value and not state.re_last
RisingEdge(value, st) ==
    Returned(LuaAnd(value, LuaNot(st.re_last)), [st EXCEPT !.re_last = value], "keep")

\* falling_edge(value): not value and state.fe_last
FallingEdge(value, st) ==
    Returned(LuaAnd(LuaNot(value), st.fe_last), [st EXCEPT !.fe_last = value], "keep")

\* delayed(value, delay_ms); now is _current_time in milliseconds.
Delayed(value, delay_ms, st, now) ==
    LET changed == st.delay_target_value # value
        s1 == IF changed
              THEN [st EXCEPT !.delay_target_value = value,
                              !.delay_start_time = now,
                              !.delay_pending = TRUE]
              ELSE st
        elapsed == s1.delay_pending /\ now - s1.delay_start_time >= delay_ms
        s2 == IF elapsed
              THEN [s1 EXCEPT !.delay_output_value = s1.delay_target_value,
                              !.delay_pending = FALSE]
              ELSE s1
        pend == IF s1.delay_pending
                THEN (IF elapsed THEN "clear" ELSE "mark")
                ELSE "keep"
    IN  Returned(s2.delay_output_value, s2, pend)

\* moving_avg(value, window): nil is not added to the history; the history keeps
\* the last `window` values and ma_sum their sum.  (The mapping sets feed it
\* multiples of 12 and a window of 4, so every average is an integer.)
MovingAvg(value, window, st, pend) ==
    IF value = Nil
    THEN IF Len(st.ma_hist) > 0
         THEN Returned(st.ma_sum \div Len(st.ma_hist), st, pend)
         ELSE Returned(Nil, st, pend)
    ELSE LET hist1 == Append(st.ma_hist, value)
             sum1 == st.ma_sum + value
             over == Len(hist1) > window
             hist2 == IF over THEN Tail(hist1) ELSE hist1
             sum2 == IF over THEN sum1 - Head(hist1) ELSE sum1
         IN  Returned(sum2 \div Len(hist2),
                      [st EXCEPT !.ma_hist = hist2, !.ma_sum = sum2], pend)

\* deps[d1] + deps[d2] + ...: arithmetic on nil raises a runtime error.
RECURSIVE SumDeps(_, _, _)
SumDeps(depends_on, deps, i) ==
    IF i > Len(depends_on) THEN 0 ELSE deps[depends_on[i]] + SumDeps(depends_on, deps, i + 1)

AnyNil(depends_on, deps) == \E i \in DOMAIN depends_on : deps[depends_on[i]] = Nil

\* The user's expression of a CodeTransform.  The mapping sets of this model use:
\*   "x * 2"                          an input's scaling (x * 3.6 in the tests)
\*   "lowpass(x, 1, STRATEGY_HOLD)"   a filter that holds its last valid output
\*   "lowpass(x, 1)"                  the same filter, default strategy
\*   "sum(deps)"                      deps['A'] + deps['B'] over depends_on
\*   "sum(deps) or nil"               the multi-line form that returns nil when a
\*                                    dependency is nil, else the sum
\*   "delayed(deps[1], DelayMs)"      delayed() of the first dependency
\*   "x * 12"                         an input's scaling
\*   "moving_avg(delayed(deps[1], DelayMs), 4)"
\*                                    the moving average of the delayed dependency
\*   "sum(deps or 0)"                 (deps['A'] or 0) + (deps['B'] or 0) over
\*                                    depends_on
EvalExpression(code, x, depends_on, deps, st, now) ==
    CASE code = "x * 2" ->
            IF x = Nil THEN Raised(st) ELSE Returned(x * 2, st, "keep")
      [] code = "lowpass(x, 1, STRATEGY_HOLD)" -> Lowpass(x, 1, STRATEGY_HOLD, st, now)
      [] code = "lowpass(x, 1)" -> Lowpass(x, 1, STRATEGY_PROPAGATE, st, now)
      [] code = "sum(deps)" ->
            IF AnyNil(depends_on, deps) THEN Raised(st)
            ELSE Returned(SumDeps(depends_on, deps, 1), st, "keep")
      [] code = "sum(deps) or nil" ->
            IF AnyNil(depends_on, deps) THEN Returned(Nil, st, "keep")
            ELSE Returned(SumDeps(depends_on, deps, 1), st, "keep")
      [] code = "delayed(deps[1], DelayMs)" ->
            Delayed(deps[depends_on[1]], DelayMs, st, now)
      [] code = "x * 12" ->
            IF x = Nil THEN Raised(st) ELSE Returned(x * 12, st, "keep")
      [] code = "sum(deps or 0)" ->
            Returned(SumDeps(depends_on,
                             [d \in DOMAIN deps |-> IF deps[d] = Nil THEN 0 ELSE deps[d]], 1),
                     st, "keep")
      [] code = "moving_avg(delayed(deps[1], DelayMs), 4)" ->
            Only({MovingAvg(d.result, 4, d.st, d.pend) :
                      d \in {Delayed(deps[depends_on[1]], DelayMs, st, now)}})

\* A create_vss_signal that keeps the status it is given.
CreateVssSignalStatusAsGiven(value, status) == status

\* create_vss_signal(path, value, datatype, status): the status of the record.
CreateVssSignalStatus(value, status) ==
    IF value = Nil /\ status = STATUS_VALID THEN STATUS_INVALID ELSE status

\* The lookup of a ValueMapping: mapping_table[tostring(value)], then the numeric
\* comparison of every key with value.
MappingLookup(table, value) == IF value \in DOMAIN table THEN table[value] ELSE Nil

\* transform_functions[name](value), as generate_transform_function writes it.
\* `value` is the number process_node passes; `status` is signal_status[name].
\* Yields err, or the record's value and status, what the transform received as
\* its input (x), and whether and what it provide()d.
TransformFunction(m, is_input, value, status, deps, st, now) ==
    LET tr == m.transform
    IN  CASE tr.kind = "Code" ->
              LET x == IF is_input
                       THEN (IF status # STATUS_VALID THEN Nil ELSE value)
                       ELSE Nil
                  my_status == IF is_input THEN status ELSE STATUS_VALID
                  e == EvalExpression(tr.code, x, m.depends_on, deps, st, now)
                  st2 == IF ~is_input /\ e.result = Nil THEN STATUS_INVALID ELSE my_status
              IN  [err |-> e.err, x |-> x, result |-> e.result,
                   status |-> CreateVssSignalStatus(e.result, st2),
                   provides |-> ~e.err /\ (~tr.multiline \/ e.result # Nil),
                   st |-> e.st, pend |-> e.pend]
          [] tr.kind = "ValueMapping" ->
              LET my_status == IF is_input THEN status ELSE STATUS_VALID
                  result == MappingLookup(tr.table, value)
                  st2 == IF ~is_input /\ result = Nil THEN StatusStringInvalid ELSE my_status
              IN  [err |-> FALSE, x |-> value, result |-> result,
                   status |-> CreateVssSignalStatus(result, st2),
                   provides |-> result # Nil,
                   st |-> st, pend |-> "keep"]
          [] tr.kind = "Direct" ->
              LET result == IF is_input /\ status = STATUS_VALID THEN value ELSE Nil
                  my_status == IF is_input THEN status ELSE STATUS_INVALID
              IN  [err |-> FALSE, x |-> result, result |-> result,
                   status |-> CreateVssSignalStatus(result, my_status),
                   provides |-> TRUE,
                   st |-> st, pend |-> "keep"]

\* extract_vss_signal_from_stack: the quality of the record; a status that is no
\* number defaults to VALID.
ExtractQuality(status) == IF status = StatusStringInvalid THEN STATUS_VALID ELSE status

(***************************************************************************)
(* SignalProcessorDAG: process_node and process_signal_updates             *)
(***************************************************************************)
Drop(f, k) == [x \in DOMAIN f \ {k} |-> f[x]]

\* node->is_can_signal = mapping.depends_on.empty()  (is_input_signal)
IsInputSignal(ms, n) == ms[n].depends_on = <<>>

\* VSSTypeHelper::to_string: "null" for the empty value, decimal for integers.
ToText(v) == IF v = Nil THEN "null" ELSE ToString(v)

\* SignalNode's runtime scalars after construction.
FreshNode ==
    [has_new_data |-> FALSE, last_output |-> NeverTime, last_output_value |-> "",
     last_process |-> NeverTime, needs_periodic_update |-> FALSE]

\* setup_node_context: the deps table (the stored value when the quality is
\* VALID, else nil) and the deps_status table (the stored quality; no entry for
\* a dependency the store does not hold).
DepsTable(store, depends_on) ==
    [d \in Range(depends_on) |->
        IF d \in DOMAIN store /\ store[d].quality = STATUS_VALID
        THEN store[d].value ELSE Nil]

DepsStatusTable(store, depends_on) ==
    [d \in Range(depends_on) |-> IF d \in DOMAIN store THEN store[d].quality ELSE Nil]

\* The number process_node passes to the transform: the stored value of a VALID
\* input, else the placeholder.
InputValue(store, is_input, n) ==
    IF is_input /\ n \in DOMAIN store /\ store[n].quality = STATUS_VALID
    THEN store[n].value
    ELSE DummyInput

\* signal_status[name] as process_node sets it for an input node.
SignalStatus(store, n) == IF n \in DOMAIN store THEN store[n].quality ELSE 0

\* The value written back from Lua's signal_values[name] (get_lua_variable, then
\* std::stod; an integral number is stored as int64).
ProvidedValue(lua_vals, n) == IF n \in DOMAIN lua_vals THEN lua_vals[n] ELSE Nil

\* A write-back that does not look at whether the transform returned a record.
WriteBackAlways(store, lua_vals, n, has_result) ==
    IF ProvidedValue(lua_vals, n) # Nil
    THEN Put(store, n, [value |-> ProvidedValue(lua_vals, n), quality |-> STATUS_VALID])
    ELSE store

\* The store after process_node's write-back: when the transform returned a
\* record and Lua's signal_values[name] is not nil, the entry takes that value
\* with quality VALID.
WriteBack(store, lua_vals, n, has_result) ==
    IF has_result /\ ProvidedValue(lua_vals, n) # Nil
    THEN Put(store, n, [value |-> ProvidedValue(lua_vals, n), quality |-> STATUS_VALID])
    ELSE store

\* The entry the store holds for a name; NoEntry when it holds none.
NoEntry == [value |-> Nil, quality |-> Nil]

EntryOf(store, n) == IF n \in DOMAIN store THEN store[n] ELSE NoEntry

\* process_node(node) on the evaluator state g at time now.  Yields the state
\* afterwards and a description of the call: what the transform saw and what it
\* returned (has_result is result.has_value()).
ProcessNode(ms, g, n, now) ==
    LET m == ms[n]
        is_input == IsInputSignal(ms, n)
        deps == DepsTable(g.store, m.depends_on)
        value == InputValue(g.store, is_input, n)
        status == SignalStatus(g.store, n)
    IN  Only({
          LET lua_vals == IF ~t.provides THEN g.lua_vals
                          ELSE IF t.result = Nil THEN Drop(g.lua_vals, n)
                          ELSE Put(g.lua_vals, n, t.result)
              store == WriteBack(g.store, lua_vals, n, ~t.err)
              pending == CASE t.pend = "mark" -> g.pending \cup {n}
                           [] t.pend = "clear" -> g.pending \ {n}
                           [] OTHER -> g.pending
          IN  [g |-> [g EXCEPT !.store = store, !.lua_vals = lua_vals,
                               !.states[n] = t.st, !.pending = pending],
               call |-> [node |-> n, is_input |-> is_input, kind |-> m.transform.kind,
                         status |-> status, x |-> t.x,
                         deps |-> deps,
                         deps_status |-> DepsStatusTable(g.store, m.depends_on),
                         has_result |-> ~t.err, value |-> t.result,
                         quality |-> IF t.err THEN Nil ELSE ExtractQuality(t.status),
                         entry_before |-> EntryOf(g.store, n),
                         entry_after |-> EntryOf(store, n)]]
          : t \in {TransformFunction(m, is_input, value, status, deps, g.states[n], now)}})

\* A propagation that marks the direct dependents and goes no further.
PropagateUpdateFlagOneLevel(dependents, rt, n, i) ==
    [x \in DOMAIN rt |->
        IF x \in Range(dependents[n]) THEN [rt[x] EXCEPT !.has_new_data = TRUE] ELSE rt[x]]

\* SignalDAG::propagate_update_flag(node): set has_new_data on every dependent
\* that is not dirty yet, and recurse into those.
RECURSIVE PropagateUpdateFlag(_, _, _, _)
PropagateUpdateFlag(dependents, rt, n, i) ==
    IF i > Len(dependents[n]) THEN rt
    ELSE LET d == dependents[n][i]
         IN  IF rt[d].has_new_data
             THEN PropagateUpdateFlag(dependents, rt, n, i + 1)
             ELSE PropagateUpdateFlag(dependents,
                      PropagateUpdateFlag(dependents,
                          [rt EXCEPT ![d].has_new_data = TRUE], d, 1),
                      n, i + 1)

\* The nodes whose has_new_data is set.
Dirty(rt) == {n \in DOMAIN rt : rt[n].has_new_data}

\* No mark_can_signal_updated call is on record.
NoMark == [name |-> "", before |-> {}]

\* SignalDAG::mark_can_signal_updated(name)
MarkCanSignalUpdated(d, rt, name) ==
    IF name \in Range(d.nodes)
    THEN PropagateUpdateFlag(d.dependents, [rt EXCEPT ![name].has_new_data = TRUE], name, 1)
    ELSE rt

\* An intake that stores the update of any node of the graph, derived or not.
RECURSIVE IntakeAnyNode(_, _, _, _, _)
IntakeAnyNode(ms, d, g, updates, i) ==
    IF i > Len(updates) THEN g
    ELSE LET u == updates[i]
         IN  IF u.signal_name \in Range(d.nodes)
             THEN IntakeAnyNode(ms, d,
                      [g EXCEPT !.store = Put(@, u.signal_name,
                                              [value |-> u.value, quality |-> u.status]),
                                !.rt = MarkCanSignalUpdated(d, @, u.signal_name)],
                      updates, i + 1)
             ELSE IntakeAnyNode(ms, d, g, updates, i + 1)

\* An intake that keeps the first update of an input and drops the later ones of
\* the same batch.
RECURSIVE IntakeFirstWins(_, _, _, _, _)
IntakeFirstWins(ms, d, g, updates, i) ==
    IF i > Len(updates) THEN g
    ELSE LET u == updates[i]
         IN  IF /\ u.signal_name \in Range(d.nodes)
                /\ IsInputSignal(ms, u.signal_name)
                /\ \A j \in 1..(i - 1) : updates[j].signal_name # u.signal_name
             THEN IntakeFirstWins(ms, d,
                      [g EXCEPT !.store = Put(@, u.signal_name,
                                              [value |-> u.value, quality |-> u.status]),
                                !.rt = MarkCanSignalUpdated(d, @, u.signal_name)],
                      updates, i + 1)
             ELSE IntakeFirstWins(ms, d, g, updates, i + 1)

\* Intake: each update of an input node is stored and marks the node and its
\* dependents dirty; any other update is ignored.
RECURSIVE Intake(_, _, _, _, _)
Intake(ms, d, g, updates, i) ==
    IF i > Len(updates) THEN g
    ELSE LET u == updates[i]
         IN  IF u.signal_name \in Range(d.nodes) /\ IsInputSignal(ms, u.signal_name)
             THEN Intake(ms, d,
                      [g EXCEPT !.store = Put(@, u.signal_name,
                                              [value |-> u.value, quality |-> u.status]),
                                !.rt = MarkCanSignalUpdated(d, @, u.signal_name)],
                      updates, i + 1)
             ELSE Intake(ms, d, g, updates, i + 1)

\* A periodic trigger that is due whenever the dependencies are in the store.
PeriodicDueAlways(m, store, rt_n, now) ==
    /\ m.update_trigger \in {"PERIODIC", "BOTH"}
    /\ m.interval_ms > 0
    /\ \A j \in DOMAIN m.depends_on : m.depends_on[j] \in DOMAIN store

\* Whether the periodic trigger of a node is due in the schedule pass.
PeriodicDue(m, store, rt_n, now) ==
    /\ m.update_trigger \in {"PERIODIC", "BOTH"}
    /\ m.interval_ms > 0
    /\ \A j \in DOMAIN m.depends_on : m.depends_on[j] \in DOMAIN store
    /\ \/ rt_n.last_process = NeverTime
       \/ now - rt_n.last_process >= m.interval_ms

\* A schedule pass that leaves the dependents' dirty bits alone.
MarkDependentsNever(rt, deps) == rt

\* The dependents of a node marked for processing get their dirty bit.
MarkDependents(rt, deps) ==
    [x \in DOMAIN rt |->
        IF x \in Range(deps) THEN [rt[x] EXCEPT !.has_new_data = TRUE] ELSE rt[x]]

\* Schedule pass: g.todo collects nodes_to_process.
RECURSIVE SchedulePass(_, _, _, _, _)
SchedulePass(ms, d, g, now, i) ==
    IF i > Len(d.processing_order) THEN g
    ELSE LET n == d.processing_order[i]
             due == PeriodicDue(ms[n], g.store, g.rt[n], now)
             needs_processing == g.rt[n].has_new_data \/ due
             rt1 == IF due THEN [g.rt EXCEPT ![n].needs_periodic_update = TRUE] ELSE g.rt
             rt2 == IF needs_processing THEN MarkDependents(rt1, d.dependents[n]) ELSE rt1
         IN  SchedulePass(ms, d,
                 [g EXCEPT !.rt = rt2,
                           !.todo = IF needs_processing THEN @ \cup {n} ELSE @],
                 now, i + 1)

\* An emit decision without the throttle.
ShouldOutputAlways(m, rt_n, now) == TRUE

\* The emit decision of the execute pass.
ShouldOutput(m, rt_n, now) ==
    IF rt_n.last_output = NeverTime THEN TRUE
    ELSE IF m.interval_ms > 0 THEN now - rt_n.last_output >= m.interval_ms
    ELSE TRUE

\* The record pushed to vss_signals.
Emission(call, phase, rt_n, now) ==
    [path |-> call.node, value |-> call.value, quality |-> call.quality,
     phase |-> phase, at |-> now, previous |-> rt_n.last_output]

\* A node whose dirty bit is cleared only when its transform returned a record.
ProcessedNodeOnResult(rt_n, now, has_result, emit, text) ==
    [rt_n EXCEPT
        !.last_process = IF rt_n.needs_periodic_update THEN now ELSE @,
        !.needs_periodic_update = FALSE,
        !.last_output = IF emit THEN now ELSE @,
        !.last_output_value = IF emit THEN text ELSE @,
        !.has_new_data = IF has_result THEN FALSE ELSE @]

\* The runtime scalars of a node after the execute pass ran it: the periodic
\* flag and the dirty bit are cleared whatever the transform returned.
ProcessedNode(rt_n, now, has_result, emit, text) ==
    [rt_n EXCEPT
        !.last_process = IF rt_n.needs_periodic_update THEN now ELSE @,
        !.needs_periodic_update = FALSE,
        !.last_output = IF emit THEN now ELSE @,
        !.last_output_value = IF emit THEN text ELSE @,
        !.has_new_data = FALSE]

\* Execute pass: every node marked or dirty runs once, in processing order.
RECURSIVE ExecutePass(_, _, _, _, _)
ExecutePass(ms, d, g, now, i) ==
    IF i > Len(d.processing_order) THEN g
    ELSE LET n == d.processing_order[i]
         IN  IF ~(n \in g.todo \/ g.rt[n].has_new_data)
             THEN ExecutePass(ms, d, g, now, i + 1)
             ELSE Only({
                    LET rt_n == p.g.rt[n]
                        emit == p.call.has_result /\ ShouldOutput(ms[n], rt_n, now)
                        rt_new == ProcessedNode(rt_n, now, p.call.has_result, emit,
                                                ToText(p.call.value))
                        rec == [call |-> p.call, phase |-> 1, emitted |-> emit,
                                periodic |-> rt_n.needs_periodic_update,
                                rt_before |-> rt_n, rt_after |-> rt_new]
                    IN  ExecutePass(ms, d,
                            [p.g EXCEPT !.rt[n] = rt_new,
                                        !.out = IF emit
                                                THEN Append(@, Emission(p.call, 1, rt_n, now))
                                                ELSE @,
                                        !.execs = Append(@, rec)],
                            now, i + 1)
                    : p \in {ProcessNode(ms, g, n, now)}})

\* A phase-2 emit decision that publishes every result.
ShouldOutputPhase2AnyResult(call, rt_n) == call.has_result

\* The emit decision of phase 2: a VALID result, first output or changed text.
ShouldOutputPhase2(call, rt_n) ==
    /\ call.has_result
    /\ call.quality = STATUS_VALID
    /\ \/ rt_n.last_output = NeverTime
       \/ rt_n.last_output_value # ToText(call.value)

\* Phase 2: re-evaluate the derived nodes found in signals_pending_reevaluation,
\* in the order `pend` (the traversal order of the Lua table).
RECURSIVE Phase2(_, _, _, _, _)
Phase2(ms, d, g, now, pend) ==
    IF pend = <<>> THEN g
    ELSE LET n == Head(pend)
         IN  IF ~(n \in Range(d.nodes) /\ ~IsInputSignal(ms, n))
             THEN Phase2(ms, d, g, now, Tail(pend))
             ELSE Only({
                    LET rt_n == p.g.rt[n]
                        emit == ShouldOutputPhase2(p.call, rt_n)
                        rt_new == [rt_n EXCEPT
                            !.last_output = IF emit THEN now ELSE @,
                            !.last_output_value = IF emit THEN ToText(p.call.value) ELSE @]
                        rec == [call |-> p.call, phase |-> 2, emitted |-> emit,
                                periodic |-> FALSE, rt_before |-> rt_n,
                                rt_after |-> rt_new]
                    IN  Phase2(ms, d,
                            [p.g EXCEPT !.rt[n] = rt_new,
                                        !.out = IF emit
                                                THEN Append(@, Emission(p.call, 2, rt_n, now))
                                                ELSE @,
                                        !.execs = Append(@, rec)],
                            now, Tail(pend))
                    : p \in {ProcessNode(ms, g, n, now)}})

(***************************************************************************)
(* Bounds and the inputs drawn from them                                   *)
(***************************************************************************)
\* The clock runs from 0 to MaxTime milliseconds.
MaxTime == 2

\* A batch of updates holds at most MaxBatch updates.
MaxBatch == 2

\* The readings a VALID update may carry.
Readings == {1, 2}

\* The throttle / period of the mapping sets that have one.
IntervalMs == 2

\* A name no mapping carries.
UnknownName == "Z"

\* process_signal_updates' whole effect on the evaluator state, for the batch
\* `updates` at time `now`, up to the end of the execute pass.
AfterExecutePass(ms, d, g, updates, now) ==
    ExecutePass(ms, d, SchedulePass(ms, d, Intake(ms, d, g, updates, 1), now, 1), now, 1)

PermSeqs(S) == {p \in [1..Cardinality(S) -> S] : Range(p) = S}

\* The evaluator state as one record.
EvaluatorState ==
    [store |-> signal_values_, lua_vals |-> lua_signal_values,
     states |-> signal_states, pending |-> signals_pending_reevaluation,
     rt |-> node_rt, todo |-> {}, out |-> <<>>, execs |-> <<>>]

\* The most recent update received for each input, after a batch.
RECURSIVE LastReceived(_, _, _, _, _)
LastReceived(ms, d, rx, updates, i) ==
    IF i > Len(updates) THEN rx
    ELSE LET u == updates[i]
         IN  LastReceived(ms, d,
                 IF u.signal_name \in Range(d.nodes) /\ IsInputSignal(ms, u.signal_name)
                 THEN Put(rx, u.signal_name, [value |-> u.value, quality |-> u.status])
                 ELSE rx,
                 updates, i + 1)

\* The updates a signal source may deliver: a VALID reading, or a non-VALID
\* quality with the placeholder value, for any name.
UpdateChoices(ms) ==
    {[signal_name |-> n, value |-> v, status |-> STATUS_VALID] :
        n \in {x \in DOMAIN ms : IsInputSignal(ms, x)}, v \in Readings}
    \cup {[signal_name |-> n, value |-> DummyInput, status |-> q] :
        n \in {x \in DOMAIN ms : IsInputSignal(ms, x)},
        q \in {STATUS_INVALID, STATUS_NOT_AVAILABLE}}
    \cup {[signal_name |-> n, value |-> 1, status |-> STATUS_VALID] :
        n \in {x \in DOMAIN ms : ~IsInputSignal(ms, x)} \cup {UnknownName}}

(***************************************************************************)
(* The mapping sets the evaluator is run on                                *)
(***************************************************************************)
\* Two inputs, one of them held by lowpass, and their sum.
PowerMappings ==
    [n \in {"A", "B", "C"} |->
        CASE n = "A" -> Mapping(<<>>, Direct, 0, "ON_DEPENDENCY")
          [] n = "B" -> Mapping(<<>>, Code("lowpass(x, 1, STRATEGY_HOLD)", FALSE), 0,
                                "ON_DEPENDENCY")
          [] n = "C" -> Mapping(<<"A", "B">>, Code("sum(deps)", FALSE), 0, "ON_DEPENDENCY")]

\* A chain: a periodically re-evaluated, throttled input, a node derived from it
\* and a node derived from that one.
ChainMappings ==
    [n \in {"A", "B", "C"} |->
        CASE n = "A" -> Mapping(<<>>, Code("x * 2", FALSE), IntervalMs, "BOTH")
          [] n = "B" -> Mapping(<<"A">>, Code("sum(deps)", FALSE), 0, "ON_DEPENDENCY")
          [] n = "C" -> Mapping(<<"B">>, Code("sum(deps) or nil", TRUE), 0, "ON_DEPENDENCY")]

\* An input and its delayed copy, throttled with an interval above the delay.
DelayedMappings ==
    [n \in {"A", "B"} |->
        CASE n = "A" -> Mapping(<<>>, Direct, 0, "ON_DEPENDENCY")
          [] n = "B" -> Mapping(<<"A">>, Code("delayed(deps[1], DelayMs)", FALSE),
                                IntervalMs + 1, "ON_DEPENDENCY")]

\* Two inputs and their sum, by a transform that reads a nil dependency as 0.
TolerantMappings ==
    [n \in {"A", "B", "C"} |->
        IF n = "C" THEN Mapping(<<"A", "B">>, Code("sum(deps or 0)", FALSE), 0, "ON_DEPENDENCY")
        ELSE Mapping(<<>>, Direct, 0, "ON_DEPENDENCY")]

\* A single input that holds its last valid output and is also re-evaluated
\* periodically.
HeldMappings ==
    [n \in {"A"} |->
        Mapping(<<>>, Code("lowpass(x, 1, STRATEGY_HOLD)", FALSE), IntervalMs, "BOTH")]

\* An input and a derived node that is re-evaluated periodically.
PeriodicMappings ==
    [n \in {"A", "B"} |->
        CASE n = "A" -> Mapping(<<>>, Direct, 0, "ON_DEPENDENCY")
          [] n = "B" -> Mapping(<<"A">>, Code("sum(deps) or nil", TRUE), IntervalMs,
                                "PERIODIC")]

\* Value mappings on an input and on a derived node, and a derived Direct node.
ValueMappings ==
    [n \in {"A", "B", "C"} |->
        CASE n = "A" -> Mapping(<<>>, ValueMap((0 :> 10) @@ (1 :> 11)), 0, "ON_DEPENDENCY")
          [] n = "B" -> Mapping(<<"A">>, ValueMap((1 :> 11)), 0, "ON_DEPENDENCY")
          [] n = "C" -> Mapping(<<"A">>, Direct, 0, "ON_DEPENDENCY")]

\* An input, its delayed copy, and a delayed copy of that copy; no throttle.
DelayChainMappings ==
    [n \in {"A", "B", "C"} |->
        CASE n = "A" -> Mapping(<<>>, Direct, 0, "ON_DEPENDENCY")
          [] n = "B" -> Mapping(<<"A">>, Code("delayed(deps[1], DelayMs)", FALSE), 0,
                                "ON_DEPENDENCY")
          [] n = "C" -> Mapping(<<"B">>, Code("delayed(deps[1], DelayMs)", FALSE), 0,
                                "ON_DEPENDENCY")]

\* A scaled input and the moving average of its delayed copy.
SmoothedMappings ==
    [n \in {"A", "B"} |->
        CASE n = "A" -> Mapping(<<>>, Code("x * 12", FALSE), 0, "ON_DEPENDENCY")
          [] n = "B" -> Mapping(<<"A">>,
                                Code("moving_avg(delayed(deps[1], DelayMs), 4)", FALSE),
                                0, "ON_DEPENDENCY")]

MappingSets ==
    {PowerMappings, ChainMappings, DelayedMappings, DelayChainMappings, SmoothedMappings,
     TolerantMappings, HeldMappings, PeriodicMappings, ValueMappings}

\* The orders in which the unordered_map of mappings may be iterated.
IterationOrders(ms) == {Ascending(DOMAIN ms), Reverse(Ascending(DOMAIN ms))}

(***************************************************************************)
(* Spec: the evaluator                                                     *)
(***************************************************************************)
\* After SignalProcessorDAG::initialize(mappings) returned true.
Init ==
    /\ mappings \in MappingSets
    /\ iter_order \in IterationOrders(mappings)
    /\ dag = Build(mappings, iter_order)
    /\ dag.ok
    /\ signal_values_ = <<>>
    /\ lua_signal_values = <<>>
    /\ signal_states = [n \in DOMAIN mappings |-> FreshState]
    /\ signals_pending_reevaluation = {}
    /\ node_rt = [n \in DOMAIN mappings |-> FreshNode]
    /\ clock = 0
    /\ last_rx = <<>>
    /\ phase2_changes = {}
    /\ returned = FALSE
    /\ batch = <<>>
    /\ valid_emitted = {}
    /\ last_mark = NoMark
    /\ IngressIdle
    /\ LibraryIdle
    /\ vss_signals = <<>>
    /\ executions = <<>>

\* The pairs (node, dependent) of a call for which a phase-2 re-evaluation of
\* the node changed its store entry and the dependent has not run since.
Phase2Changes(d, execs) ==
    {p \in Range(d.nodes) \X Range(d.nodes) :
        /\ p[2] \in Range(d.dependents[p[1]])
        /\ \E i \in DOMAIN execs :
              /\ execs[i].phase = 2
              /\ execs[i].call.node = p[1]
              /\ execs[i].call.entry_after # execs[i].call.entry_before
              /\ \A j \in DOMAIN execs : j > i => execs[j].call.node # p[2]}

\* One call of process_signal_updates(updates) at the current clock reading.
ProcessSignalUpdates ==
    /\ ~returned
    /\ returned' = TRUE
    /\ \E updates \in SeqsUpTo(UpdateChoices(mappings), MaxBatch) :
         \E g3 \in {AfterExecutePass(mappings, dag, EvaluatorState, updates, clock)} :
             \E pend \in PermSeqs(g3.pending) :
                 \E g4 \in {Phase2(mappings, dag, g3, clock, pend)} :
                     /\ signal_values_' = g4.store
                     /\ lua_signal_values' = g4.lua_vals
                     /\ signal_states' = g4.states
                     /\ signals_pending_reevaluation' = g4.pending
                     /\ node_rt' = g4.rt
                     /\ vss_signals' = g4.out
                     /\ executions' = g4.execs
                     /\ last_rx' = LastReceived(mappings, dag, last_rx, updates, 1)
                     /\ phase2_changes' = Phase2Changes(dag, g4.execs)
                     /\ batch' = updates
                     /\ UNCHANGED <<mappings, iter_order, dag, clock, valid_emitted,
                                    last_mark>>
    /\ UNCHANGED <<ingress, library>>

\* The caller consumes the returned records; the evaluator is ready for the
\* next call.
Return ==
    /\ returned
    /\ returned' = FALSE
    /\ batch' = <<>>
    /\ valid_emitted' = valid_emitted \cup
           {vss_signals[k].path : k \in {j \in DOMAIN vss_signals :
                                            vss_signals[j].quality = STATUS_VALID}}
    /\ vss_signals' = <<>>
    /\ executions' = <<>>
    /\ UNCHANGED <<mappings, iter_order, dag, signal_values_, lua_signal_values,
                   signal_states, signals_pending_reevaluation, node_rt, clock, last_rx, phase2_changes,
                   last_mark>>
    /\ UNCHANGED <<ingress, library>>

\* Time passes between two calls.
Tick ==
    /\ ~returned
    /\ clock < MaxTime
    /\ clock' = clock + 1
    /\ UNCHANGED <<mappings, iter_order, dag, signal_values_, lua_signal_values,
                   signal_states, signals_pending_reevaluation, node_rt, last_rx, phase2_changes,
                   returned, batch, valid_emitted, last_mark, vss_signals, executions>>
    /\ UNCHANGED <<ingress, library>>

Next == ProcessSignalUpdates \/ Return \/ Tick

Spec == Init /\ [][Next]_vars

(***************************************************************************)
(* SignalDAG::build on arbitrary small mapping sets                        *)
(***************************************************************************)
\* A depends_on list holds at most MaxDeps entries.
MaxDeps == 2

\* The mappings build() is given, and a name only `provides` can introduce.
DagNames == {"A", "B", "C"}

ProvidedName == "P"

\* The names a depends_on list may hold: mappings, and a name that is provided
\* only when mapping C provides it.
DependencyNames == {"A", "B", ProvidedName}

\* What mapping C may write in `provides`: nothing, a fresh name, or the name
\* of mapping A; the other mappings write nothing.
ProvidesChoices == {NoProvides, ProvidedName, "A"}

\* Every mapping set over DagNames: any depends_on list, repeated entries and
\* names nobody provides included; mapping B with a source or without one,
\* whatever its depends_on list.
DagMappingSets ==
    {[n \in DagNames |-> [Mapping(deps[n], Direct, 0, "ON_DEPENDENCY")
                              EXCEPT !.provides = IF n = "C" THEN prov ELSE NoProvides,
                                     !.source = IF n = "B" THEN src ELSE @]] :
        deps \in [DagNames -> SeqsUpTo(DependencyNames, MaxDeps)],
        prov \in ProvidesChoices,
        src \in {NoSource, DbcSource("Sig")}}

\* What build() leaves alone.
DagIdle ==
    <<mappings, iter_order, signal_values_, lua_signal_values, signal_states,
      signals_pending_reevaluation, clock, last_rx, phase2_changes, returned, batch, valid_emitted,
      last_mark, vss_signals, executions>>

DagInit ==
    /\ mappings \in DagMappingSets
    /\ iter_order \in IterationOrders(mappings)
    /\ dag = EmptyDag
    /\ signal_values_ = <<>>
    /\ lua_signal_values = <<>>
    /\ signal_states = <<>>
    /\ signals_pending_reevaluation = {}
    /\ node_rt = <<>>
    /\ clock = 0
    /\ last_rx = <<>>
    /\ phase2_changes = {}
    /\ returned = FALSE
    /\ batch = <<>>
    /\ valid_emitted = {}
    /\ last_mark = NoMark
    /\ IngressIdle
    /\ LibraryIdle
    /\ vss_signals = <<>>
    /\ executions = <<>>

\* dag.build(mappings)
BuildDag ==
    /\ ~dag.built
    /\ \E d \in {Build(mappings, iter_order)} :
           /\ dag' = d
           /\ node_rt' = [n \in Range(d.nodes) |-> FreshNode]
    /\ UNCHANGED DagIdle
    /\ UNCHANGED <<ingress, library>>

\* dag.mark_can_signal_updated(name) on a successfully built graph, for the name
\* of a node or of none.
MarkUpdated ==
    /\ dag.built /\ dag.ok
    /\ \E name \in DagNames \cup {UnknownName} :
           /\ node_rt' = MarkCanSignalUpdated(dag, node_rt, name)
           /\ last_mark' = [name |-> name, before |-> Dirty(node_rt)]
    /\ UNCHANGED <<mappings, iter_order, dag, signal_values_, lua_signal_values,
                   signal_states, signals_pending_reevaluation, clock, last_rx, phase2_changes, returned,
                   batch, valid_emitted, vss_signals, executions>>
    /\ UNCHANGED <<ingress, library>>

\* The owner of the graph sets has_new_data on the direct dependents of a node
\* it schedules, through the nodes' public field.
ScheduleNode ==
    /\ dag.built /\ dag.ok
    /\ \E n \in Range(dag.nodes) :
           node_rt' = MarkDependents(node_rt, dag.dependents[n])
    /\ last_mark' = NoMark
    /\ UNCHANGED <<mappings, iter_order, dag, signal_values_, lua_signal_values,
                   signal_states, signals_pending_reevaluation, clock, last_rx, phase2_changes, returned,
                   batch, valid_emitted, vss_signals, executions>>
    /\ UNCHANGED <<ingress, library>>

\* The owner of the graph clears has_new_data of a node it has processed.
ClearNewData ==
    /\ dag.built /\ dag.ok
    /\ \E n \in Range(dag.nodes) :
           /\ node_rt[n].has_new_data
           /\ node_rt' = [node_rt EXCEPT ![n].has_new_data = FALSE]
    /\ last_mark' = NoMark
    /\ UNCHANGED <<mappings, iter_order, dag, signal_values_, lua_signal_values,
                   signal_states, signals_pending_reevaluation, clock, last_rx, phase2_changes, returned,
                   batch, valid_emitted, vss_signals, executions>>
    /\ UNCHANGED <<ingress, library>>

DagNext == BuildDag \/ MarkUpdated \/ ScheduleNode \/ ClearNewData

SpecDAG == DagInit /\ [][DagNext]_vars

(***************************************************************************)
(* Properties of SignalDAG::build                                          *)
(***************************************************************************)
\* The names some mapping provides.
ProvidedNames(ms) == {ProvidesOf(ms, n) : n \in DOMAIN ms}

\* Some depends_on entry names a signal no mapping provides.
UnknownDependency(ms) ==
    \E n \in DOMAIN ms : \E dep \in Range(ms[n].depends_on) : dep \notin ProvidedNames(ms)

\* Two mappings provide the same name.
DuplicateProvider(ms) ==
    \E n, m \in DOMAIN ms : n /= m /\ ProvidesOf(ms, n) = ProvidesOf(ms, m)

\* v depends on what u provides.
DependsOn(ms, v, u) == ProvidesOf(ms, u) \in Range(ms[v].depends_on)

\* v depends on u through k or fewer edges.
RECURSIVE DependsWithin(_, _, _, _)
DependsWithin(ms, v, u, k) ==
    /\ k > 0
    /\ \/ DependsOn(ms, v, u)
       \/ \E w \in DOMAIN ms : DependsOn(ms, v, w) /\ DependsWithin(ms, w, u, k - 1)

\* The dependency graph has a directed cycle (a self-dependency included).
Cyclic(ms) == \E n \in DOMAIN ms : DependsWithin(ms, n, n, Cardinality(DOMAIN ms))

\* C1: when build succeeds, the processing order holds every node exactly once
\* (its length is the number of mappings) and every node comes at a later index
\* than the provider of each of its depends_on entries, repeated entries
\* included.
C1_ProcessingOrder ==
    (dag.built /\ dag.ok) =>
        /\ Len(dag.processing_order) = Cardinality(DOMAIN mappings)
        /\ \A n \in DOMAIN mappings : Count(dag.processing_order, n) = 1
        /\ \A n \in DOMAIN mappings : \A dep \in Range(mappings[n].depends_on) :
               IndexOf(dag.processing_order, dag.provider_map[dep])
                   < IndexOf(dag.processing_order, n)

\* A successful build of a two-level graph whose last level repeats a
\* depends_on entry, created in the order that puts the dependent first.
C1_Witness ==
    /\ dag.built /\ dag.ok
    /\ mappings["B"].depends_on = <<"A">>
    /\ mappings["C"].depends_on = <<"B", "B">>
    /\ iter_order[1] = "C"
    /\ dag.processing_order = <<"A", "B", "C">>

\* C2 as stated: build returns false when a depends_on entry names a signal no
\* mapping provides or the graph has a cycle, and returns true for every
\* mapping set whose dependency names are all known and whose graph is acyclic.
C2_AsStated ==
    dag.built =>
        /\ (UnknownDependency(mappings) \/ Cyclic(mappings)) => ~dag.ok
        /\ (~UnknownDependency(mappings) /\ ~Cyclic(mappings)) => dag.ok

\* C2: build returns true exactly when no two mappings provide the same name,
\* every depends_on entry names a provided signal, and the graph is acyclic.
C2_BuildResult ==
    dag.built =>
        (dag.ok <=> /\ ~DuplicateProvider(mappings)
                    /\ ~UnknownDependency(mappings)
                    /\ ~Cyclic(mappings))

\* A build that fails on a self-dependency alone.
C2_Witness ==
    /\ dag.built /\ ~dag.ok
    /\ mappings["A"].depends_on = <<"A">>
    /\ ~DuplicateProvider(mappings) /\ ~UnknownDependency(mappings)

(***************************************************************************)
(* Properties of process_signal_updates                                    *)
(***************************************************************************)
\* The executions of the execute pass of the call that just returned.
ExecutePassRecords == SelectSeq(executions, LAMBDA r : r.phase = 1)

\* What a dependent sees of a store entry: deps_status and deps.
SeenStatus(entry) == entry.quality

SeenValue(entry) == IF entry.quality = STATUS_VALID THEN entry.value ELSE Nil

\* C3: in the execute pass of one call no node runs twice, every transitive
\* dependent of a node that runs also runs, later, and a node that runs after a
\* dependency of its reads the entry that dependency left in the store.
C3_ExecutePassOrder ==
    \A i \in DOMAIN ExecutePassRecords :
        LET n == ExecutePassRecords[i].call.node
        IN  /\ \A j \in DOMAIN ExecutePassRecords :
                   j /= i => ExecutePassRecords[j].call.node /= n
            /\ \A m \in DOMAIN mappings :
                   DependsWithin(mappings, m, n, Cardinality(DOMAIN mappings)) =>
                       \E j \in DOMAIN ExecutePassRecords :
                           j > i /\ ExecutePassRecords[j].call.node = m
            /\ \A j \in DOMAIN ExecutePassRecords :
                   LET c == ExecutePassRecords[j].call
                   IN  n \in Range(mappings[c.node].depends_on) =>
                           /\ i < j
                           /\ c.deps_status[n]
                                  = SeenStatus(ExecutePassRecords[i].call.entry_after)
                           /\ c.deps[n] = SeenValue(ExecutePassRecords[i].call.entry_after)

\* Two inputs updated in one batch, and their sum computed from both new values
\* in that call.
C3_Witness ==
    /\ returned
    /\ mappings = PowerMappings
    /\ Len(ExecutePassRecords) = 3
    /\ \E i, j \in DOMAIN ExecutePassRecords :
           /\ ExecutePassRecords[i].call.node = "A"
           /\ ExecutePassRecords[i].call.entry_before = [value |-> 2, quality |-> STATUS_VALID]
           /\ ExecutePassRecords[j].call.node = "B"
           /\ ExecutePassRecords[j].call.entry_before = [value |-> 1, quality |-> STATUS_VALID]
    /\ ExecutePassRecords[3].call.node = "C"
    /\ ExecutePassRecords[3].call.value = 3
    /\ ExecutePassRecords[3].emitted

\* "Rescued with a HOLD strategy": the transform is a lowpass with STRATEGY_HOLD
\* and it returned a value.
RescuedByHold(call) ==
    /\ mappings[call.node].transform.code = "lowpass(x, 1, STRATEGY_HOLD)"
    /\ call.value # Nil

C5_AsStated ==
    \A i \in DOMAIN vss_signals :
        LET e == vss_signals[i]
        IN  (mappings[e.path].interval_ms > 0 /\ e.previous # NeverTime) =>
                e.at - e.previous >= mappings[e.path].interval_ms

C7_ScriptError ==
    /\ \A i \in DOMAIN ExecutePassRecords :
           LET r == ExecutePassRecords[i]
           IN  ~r.call.has_result =>
                   /\ ~r.emitted
                   /\ \A k \in DOMAIN vss_signals :
                          vss_signals[k].phase = 1 => vss_signals[k].path # r.call.node
                   /\ r.call.entry_after = r.call.entry_before
                   /\ ~r.rt_after.has_new_data /\ ~r.rt_after.needs_periodic_update
                   /\ \A m \in DOMAIN mappings :
                          r.call.node \in Range(mappings[m].depends_on) =>
                              \E j \in DOMAIN ExecutePassRecords :
                                  LET c == ExecutePassRecords[j].call
                                  IN  /\ j > i
                                      /\ c.node = m
                                      /\ c.deps_status[r.call.node]
                                             = SeenStatus(r.call.entry_before)
                                      /\ c.deps[r.call.node] = SeenValue(r.call.entry_before)
    /\ \A n \in DOMAIN node_rt :
           ~node_rt[n].has_new_data /\ ~node_rt[n].needs_periodic_update

\* A derived node whose transform raises while its store entry holds a value
\* from an earlier call, and its dependent computing from that value in the same
\* call.
C7_Witness ==
    /\ returned
    /\ mappings = ChainMappings
    /\ \E i, j \in DOMAIN ExecutePassRecords :
           /\ ExecutePassRecords[i].call.node = "B"
           /\ ~ExecutePassRecords[i].call.has_result
           /\ ExecutePassRecords[i].call.entry_before.quality = STATUS_VALID
           /\ ExecutePassRecords[j].call.node = "C"
           /\ ExecutePassRecords[j].call.has_result
           /\ ExecutePassRecords[j].call.value
                  = ExecutePassRecords[i].call.entry_before.value
           /\ ExecutePassRecords[j].emitted

\* C8 as stated: an input node whose stored quality is not VALID passes its
\* transform the empty marker, whatever the transform kind.
C8_AsStated ==
    \A i \in DOMAIN executions :
        LET c == executions[i].call
        IN  (c.is_input /\ c.entry_before # NoEntry
                        /\ c.entry_before.quality # STATUS_VALID) => c.x = Nil

\* C9 as stated: when a derived node runs, deps_status of each input dependency
\* is the quality of the last update received for it, and deps holds a value for
\* it only if that quality is VALID.
C9_AsStated ==
    \A i \in DOMAIN executions :
        LET c == executions[i].call
        IN  ~c.is_input =>
                \A d \in Range(mappings[c.node].depends_on) :
                    (IsInputSignal(mappings, d) /\ d \in DOMAIN last_rx) =>
                        /\ c.deps_status[d] = last_rx[d].quality
                        /\ c.deps[d] # Nil => last_rx[d].quality = STATUS_VALID

\* C10 as stated: an input node that runs when the last update received for it
\* carried a quality other than VALID emits a record of exactly that quality.
C10_AsStated ==
    \A i \in DOMAIN executions :
        LET c == executions[i].call
        IN  (c.is_input /\ executions[i].emitted /\ c.node \in DOMAIN last_rx
                        /\ last_rx[c.node].quality # STATUS_VALID) =>
                c.quality = last_rx[c.node].quality

\* C11 as stated: a record whose value is empty has quality INVALID when the
\* node is derived or is an input with status VALID, whatever the transform
\* kind; an input with a non-VALID status keeps that status.
C11_AsStated ==
    \A i \in DOMAIN executions :
        LET c == executions[i].call
        IN  (c.has_result /\ c.value = Nil) =>
                IF ~c.is_input \/ c.status = STATUS_VALID
                THEN c.quality = STATUS_INVALID
                ELSE c.quality = c.status

\* The positions of the batch that hold an update taken in for input n.
UpdatesOf(n) == {k \in DOMAIN batch : batch[k].signal_name = n}

\* The last update of the batch for input n, as a store entry.
LastUpdateOf(n) ==
    LET k == CHOOSE k \in UpdatesOf(n) : \A j \in UpdatesOf(n) : j <= k
    IN  [value |-> batch[k].value, quality |-> batch[k].status]

\* C12: every update of a batch is stored, in order, before any transform runs:
\* an input node the batch updates runs exactly once in the execute pass, and
\* its transform finds in the store the value and quality of the last update
\* the batch holds for it.
C12_IntakeOrder ==
    returned =>
        \A n \in DOMAIN mappings :
            (IsInputSignal(mappings, n) /\ UpdatesOf(n) # {}) =>
                /\ Cardinality({i \in DOMAIN ExecutePassRecords :
                                   ExecutePassRecords[i].call.node = n}) = 1
                /\ \A i \in DOMAIN ExecutePassRecords :
                       ExecutePassRecords[i].call.node = n =>
                           ExecutePassRecords[i].call.entry_before = LastUpdateOf(n)

\* A batch with two different updates of one input; the node runs once, on the
\* second.
C12_Witness ==
    /\ returned
    /\ Len(batch) = 2
    /\ batch[1].signal_name = "A" /\ batch[2].signal_name = "A"
    /\ batch[1].status = STATUS_INVALID
    /\ batch[2].status = STATUS_VALID /\ batch[2].value = 2
    /\ Len(ExecutePassRecords) >= 1
    /\ ExecutePassRecords[1].call.node = "A"
    /\ ExecutePassRecords[1].call.x = 2
    /\ ExecutePassRecords[1].emitted

\* The updates of a batch that name an input node of the graph.
InputUpdates(updates) ==
    SelectSeq(updates, LAMBDA u : /\ u.signal_name \in Range(dag.nodes)
                                  /\ IsInputSignal(mappings, u.signal_name))

\* C13: updates that name no node of the graph, or a derived node, change
\* nothing: a call leaves the store, the Lua side, every node's flags and
\* timestamps, the executions and the returned records exactly as the same call
\* without those updates, which still takes in the batch's other updates.
C13_IgnoredUpdates ==
    [][(~returned /\ returned') =>
          \E g3 \in {AfterExecutePass(mappings, dag, EvaluatorState,
                                      InputUpdates(batch'), clock)} :
              \E pend \in PermSeqs(g3.pending) :
                  \E g4 \in {Phase2(mappings, dag, g3, clock, pend)} :
                      /\ signal_values_' = g4.store
                      /\ lua_signal_values' = g4.lua_vals
                      /\ signal_states' = g4.states
                      /\ signals_pending_reevaluation' = g4.pending
                      /\ node_rt' = g4.rt
                      /\ vss_signals' = g4.out
                      /\ executions' = g4.execs]_vars

\* A batch that holds an update for a derived node and one for an input: only
\* the input's is taken in, and the derived node is computed, not overwritten.
C13_Witness ==
    /\ returned
    /\ mappings = ChainMappings
    /\ Len(batch) = 2
    /\ batch[1].signal_name = "B"
    /\ batch[2].signal_name = "A" /\ batch[2].status = STATUS_VALID /\ batch[2].value = 2
    /\ "B" \in DOMAIN signal_values_
    /\ signal_values_["B"] = [value |-> 4, quality |-> STATUS_VALID]
    /\ UnknownName \notin DOMAIN signal_values_

\* The nodes with a periodic trigger: PERIODIC or BOTH, and interval_ms > 0.
PeriodicNodes ==
    {n \in DOMAIN mappings : /\ mappings[n].update_trigger \in {"PERIODIC", "BOTH"}
                             /\ mappings[n].interval_ms > 0}

\* C14: a call at time now runs a periodic node on its periodic trigger exactly
\* when every dependency has a store entry once the batch is taken in and the
\* node was never periodically processed or interval_ms has passed since
\* last_process, whatever the batch (the empty one included); last_process
\* becomes now exactly then, so two periodic runs of a node are at least
\* interval_ms apart.
C14_PeriodicTrigger ==
    [][(~returned /\ returned') =>
          \A n \in PeriodicNodes :
              LET taken == Intake(mappings, dag, EvaluatorState, batch', 1).store
                  due == /\ \A d \in Range(mappings[n].depends_on) : d \in DOMAIN taken
                         /\ \/ node_rt[n].last_process = NeverTime
                            \/ clock - node_rt[n].last_process >= mappings[n].interval_ms
                  runs == {i \in DOMAIN executions' :
                              /\ executions'[i].call.node = n
                              /\ executions'[i].phase = 1
                              /\ executions'[i].periodic}
              IN  /\ due <=> runs # {}
                  /\ Cardinality(runs) <= 1
                  /\ node_rt'[n].last_process
                         = IF due THEN clock ELSE node_rt[n].last_process
                  /\ (due /\ node_rt[n].last_process # NeverTime) =>
                         clock - node_rt[n].last_process >= mappings[n].interval_ms]_vars

\* A derived periodic node that runs on its periodic trigger in a call with an
\* empty batch, interval_ms after its previous periodic run.
C14_Witness ==
    /\ returned
    /\ mappings = PeriodicMappings
    /\ batch = <<>>
    /\ \E i \in DOMAIN executions :
           /\ executions[i].call.node = "B"
           /\ executions[i].periodic
           /\ executions[i].rt_before.last_process # NeverTime
           /\ clock - executions[i].rt_before.last_process = IntervalMs
           /\ executions[i].call.has_result

\* The nodes whose transform is delayed().
DelayedNodes ==
    {n \in DOMAIN mappings : mappings[n].transform.code = "delayed(deps[1], DelayMs)"}

\* C15 as stated: a node whose transform is delayed(x, D) emits nothing, from
\* either phase, while the delay of the last change of x is running; what it
\* emits is the new value of x, and it does not emit that value a second time.
C15_AsStated ==
    \A i \in DOMAIN executions :
        LET r == executions[i]
            n == r.call.node
        IN  (n \in DelayedNodes /\ r.emitted) =>
                /\ ~signal_states[n].delay_pending
                /\ r.call.value = signal_states[n].delay_target_value
                /\ r.rt_before.last_output_value # ToText(r.call.value)

\* C16 as stated: a node that is pending is re-evaluated in phase 2 of the call,
\* and the value delayed() held back is delivered: once the node has left the
\* pending set, nothing but a new update makes it run again, so by then the
\* value delayed() outputs has been emitted.
C16_AsStated ==
    /\ returned =>
           \A n \in signals_pending_reevaluation :
               \E i \in DOMAIN executions :
                   executions[i].phase = 2 /\ executions[i].call.node = n
    /\ \A n \in DelayedNodes :
           (/\ n \notin signals_pending_reevaluation
            /\ signal_states[n].delay_output_value # Nil) =>
               node_rt[n].last_output_value = ToText(signal_states[n].delay_output_value)


(***************************************************************************)
(* Phase 2                                                                 *)
(***************************************************************************)
\* Whether node n made a VALID emission before execution i of the current
\* call: in an earlier call, or earlier in this one.
ValidEmissionBefore(i) ==
    LET n == executions[i].call.node
    IN  \/ n \in valid_emitted
        \/ \E j \in 1..(i - 1) :
               /\ executions[j].call.node = n
               /\ executions[j].emitted
               /\ executions[j].call.quality = STATUS_VALID

SecondPhase2(pend) == Phase2(mappings, dag, EvaluatorState, clock, pend)

\* C18 as stated: after a call has run phase 2, running phase 2 again at the
\* same clock reading and without new updates emits nothing, whatever nodes are
\* pending and in whatever order they are traversed.
C18_AsStated ==
    returned =>
        \A pend \in PermSeqs(signals_pending_reevaluation) :
            SecondPhase2(pend).out = <<>>


(***************************************************************************)
(* mark_can_signal_updated                                                 *)
(***************************************************************************)
\* The nodes reachable from the set S along dependents edges that lead into
\* the set `through`.
RECURSIVE ReachThrough(_, _)
ReachThrough(S, through) ==
    LET next == {d \in through : \E n \in S : d \in Range(dag.dependents[n])}
    IN  IF next \subseteq S THEN S ELSE ReachThrough(S \cup next, through)

\* Every transitive dependent of node n.
TransitiveDependents(n) == ReachThrough({n}, Range(dag.nodes)) \ {n}

\* The dependents of n reachable along nodes that were all clean before the call.
CleanDependents(n, before) == ReachThrough({n}, Range(dag.nodes) \ before) \ {n}

C20_AsStated ==
    (dag.built /\ dag.ok) =>
        \A o \in IterationOrders(mappings) :
            Build(mappings, o).processing_order = dag.processing_order

(***************************************************************************)
(* Inputs and derived signals                                              *)
(***************************************************************************)
\* A mapping with both a populated source and dependencies.
Mixed(m) == SourceIsInputSignal(m.source) /\ m.depends_on # <<>>

\* C21 as stated: build() fails when a mapping is mixed; in a graph it built,
\* every node either has a source and no dependencies or dependencies and no
\* source, and a node counts as an input exactly when its source is populated.
C21_AsStated ==
    dag.built =>
        /\ (\E n \in DOMAIN mappings : Mixed(mappings[n])) => ~dag.ok
        /\ dag.ok =>
              \A n \in DOMAIN mappings :
                  /\ SourceIsInputSignal(mappings[n].source) <=> mappings[n].depends_on = <<>>
                  /\ IsInputSignal(mappings, n) <=> SourceIsInputSignal(mappings[n].source)

(***************************************************************************)
(* DBCParser: the wire decoder                                             *)
(***************************************************************************)
\* A 32-bit CAN identifier: its flag bits (bits 29 to 31) as a set, and its low
\* 29 bits.
CanId(flags, low) == [flags |-> flags, low |-> low]

\* id & CAN_EFF_MASK (0x1FFFFFFF)
StripFlags(id) == [flags |-> {}, low |-> id.low]

\* A signal of the network, as dbcppp hands it out (unsigned signals).
Signal(name, bit_size, factor, offset, min, max) ==
    [name |-> name, bit_size |-> bit_size, factor |-> factor, offset |-> offset,
     min |-> min, max |-> max]

\* sig.RawToPhys(raw)
RawToPhys(sig, raw) == raw * sig.factor + sig.offset

\* sig.Decode(data): the bit_size bits of the signal, taken from byte i of the
\* frame (the signals of this model each start a byte of their own).
DecodeRaw(sig, data, i) == data[i] % (2 ^ sig.bit_size)

\* The SignalInfo parse() computes for one signal.
SignalInfoOf(sig) ==
    LET max_possible_raw == 2 ^ sig.bit_size - 1
        invalid_raw_value == max_possible_raw
        na_raw_value == max_possible_raw - 1
        physical_invalid == RawToPhys(sig, invalid_raw_value)
        physical_na == RawToPhys(sig, na_raw_value)
    IN  [invalid_raw_value |-> invalid_raw_value,
         na_raw_value |-> na_raw_value,
         min_physical |-> sig.min,
         max_physical |-> sig.max,
         can_use_invalid_pattern |-> physical_invalid < sig.min \/ physical_invalid > sig.max,
         can_use_na_pattern |-> physical_na < sig.min \/ physical_na > sig.max]

\* The (message, signal) pairs of the network in the order parse() visits them.
NetworkSignals(network) ==
    Concat([m \in DOMAIN network |-> network[m].signals], 1)

\* parse(): signal_info_[sig.Name()] = info, for every signal of every message.
RECURSIVE ParseSignals(_, _, _)
ParseSignals(sigs, i, info) ==
    IF i > Len(sigs) THEN info
    ELSE ParseSignals(sigs, i + 1, Put(info, sigs[i].name, SignalInfoOf(sigs[i])))

\* SignalInfo::check_status(raw_value, physical_value)
CheckStatus(info, raw_value, physical_value) ==
    IF info.can_use_invalid_pattern /\ raw_value = info.invalid_raw_value
    THEN STATUS_INVALID
    ELSE IF info.can_use_na_pattern /\ raw_value = info.na_raw_value
    THEN STATUS_NOT_AVAILABLE
    ELSE IF physical_value < info.min_physical \/ physical_value > info.max_physical
    THEN STATUS_INVALID
    ELSE STATUS_VALID

\* No message, no id.
NoMessage == 0

\* The index of the first message whose id, flags stripped, is can_id with its
\* flags stripped.
MessageMasked(network, can_id) ==
    LET hits == {m \in DOMAIN network : StripFlags(network[m].id) = StripFlags(can_id)}
    IN  IF hits = {} THEN NoMessage ELSE CHOOSE m \in hits : \A h \in hits : m <= h

\* The index of the first message whose id equals can_id.
MessageExact(network, can_id) ==
    LET hits == {m \in DOMAIN network : network[m].id = can_id}
    IN  IF hits = {} THEN NoMessage ELSE CHOOSE m \in hits : \A h \in hits : m <= h

\* decode_message_as_updates(can_id, data, length): one update per signal of the
\* selected message.  message, raw and signal are kept for the record.
DecodeMessageAsUpdates(parser, can_id, data) ==
    IF ~parser.parsed THEN <<>>
    ELSE LET m == MessageMasked(parser.network, can_id)
         IN  IF m = NoMessage THEN <<>>
             ELSE [i \in DOMAIN parser.network[m].signals |->
                     LET sig == parser.network[m].signals[i]
                         raw_value == DecodeRaw(sig, data, i)
                         physical_value == RawToPhys(sig, raw_value)
                     IN  [dbc_signal_name |-> sig.name,
                          value |-> physical_value,
                          type |-> IF sig.factor = 1 /\ sig.offset = 0
                                   THEN "int64" ELSE "double",
                          status |-> IF sig.name \in DOMAIN parser.signal_info_
                                     THEN CheckStatus(parser.signal_info_[sig.name],
                                                      raw_value, physical_value)
                                     ELSE STATUS_VALID,
                          message |-> m, raw |-> raw_value, signal |-> sig]]

\* has_message(can_id)
HasMessage(parser, can_id) ==
    parser.parsed /\ MessageExact(parser.network, can_id) # NoMessage

\* get_signal_names(can_id)
GetSignalNames(parser, can_id) ==
    IF ~parser.parsed \/ MessageExact(parser.network, can_id) = NoMessage THEN <<>>
    ELSE LET sigs == parser.network[MessageExact(parser.network, can_id)].signals
         IN  [i \in DOMAIN sigs |-> sigs[i].name]

\* std::nullopt
NoId == [flags |-> {}, low |-> 0 - 1]

\* get_message_id_for_signal(signal_name): the id, flags stripped, of the first
\* message that has a signal of that name.
GetMessageIdForSignal(parser, signal_name) ==
    LET hits == {m \in DOMAIN parser.network :
                    \E i \in DOMAIN parser.network[m].signals :
                        parser.network[m].signals[i].name = signal_name}
    IN  IF ~parser.parsed \/ hits = {} THEN NoId
        ELSE StripFlags(parser.network[CHOOSE m \in hits : \A h \in hits : m <= h].id)

(***************************************************************************)
(* SpecDBC: parse and decode on small networks                             *)
(***************************************************************************)
\* A signal has at most MaxBitSize bits.
MaxBitSize == 3

\* The definitions the first signal of the network may have.
SignalDefinitions ==
    {Signal("S", bits, factor, offset, min, max) :
        bits \in 1..MaxBitSize, factor \in {1, 2}, offset \in {0, 0 - 1},
        min \in {0, 1}, max \in 1..(2 ^ MaxBitSize - 1)}

\* The networks: a message with the signal S, under a standard or an extended
\* id, and a second message whose only signal is a full-range signal named T or,
\* like the first, S.
Networks ==
    {<<[id |-> id1, signals |-> <<s>>],
       [id |-> CanId({}, 3),
        signals |-> <<Signal(name2, MaxBitSize, 1, 0, 0, 2 ^ MaxBitSize - 1)>>]>> :
        id1 \in {CanId({}, 1), CanId({"EFF"}, 2)},
        s \in SignalDefinitions,
        name2 \in {"S", "T"}}

\* The identifiers the decoder is asked about, with and without flag bits.
QueryIds == {CanId(f, low) : f \in {{}, {"EFF"}}, low \in 1..3}

\* The signal names the decoder is asked about.
QueryNames == {"S", "T", UnknownName}

\* The payloads: one byte per signal.
Payloads == [1..1 -> 0..(2 ^ MaxBitSize - 1)]

\* No argument of that kind in a call.
NoArg == <<>>

DbcCall(op, id, data, name, result) ==
    [op |-> op, id |-> id, data |-> data, name |-> name, result |-> result]

\* The evaluator does not exist in the specifications of the decoder and of the
\* ingress.
EvaluatorIdle ==
    /\ mappings = <<>>
    /\ iter_order = <<>>
    /\ dag = EmptyDag
    /\ signal_values_ = <<>>
    /\ lua_signal_values = <<>>
    /\ signal_states = <<>>
    /\ signals_pending_reevaluation = {}
    /\ node_rt = <<>>
    /\ clock = 0
    /\ last_rx = <<>>
    /\ phase2_changes = {}
    /\ returned = FALSE
    /\ batch = <<>>
    /\ valid_emitted = {}
    /\ last_mark = NoMark
    /\ vss_signals = <<>>
    /\ executions = <<>>

\* A DBCParser constructed on a file that holds one of the networks.
DbcInit ==
    /\ EvaluatorIdle
    /\ LibraryIdle
    /\ \E network \in Networks :
           dbc_parser = [network |-> network, parsed |-> FALSE, signal_info_ |-> <<>>]
    /\ dbc_call = DbcCall("none", NoArg, NoArg, NoArg, NoArg)
    /\ can_source = <<>>
    /\ can_reader = <<>>
    /\ caller = <<>>
    /\ bus = <<>>

\* parse()
Parse ==
    /\ ~dbc_parser.parsed
    /\ dbc_parser' = [dbc_parser EXCEPT
           !.parsed = TRUE,
           !.signal_info_ = ParseSignals(NetworkSignals(dbc_parser.network), 1, <<>>)]
    /\ dbc_call' = DbcCall("parse", NoArg, NoArg, NoArg, TRUE)
    /\ UNCHANGED <<evaluator, library, can_source, can_reader, caller, bus>>

\* decode_message_as_updates(can_id, data, length)
DecodeMessage ==
    /\ \E can_id \in QueryIds, data \in Payloads :
           dbc_call' = DbcCall("decode", can_id, data, NoArg,
                               DecodeMessageAsUpdates(dbc_parser, can_id, data))
    /\ UNCHANGED <<evaluator, library, dbc_parser, can_source, can_reader, caller, bus>>

\* has_message(can_id)
HasMessageCall ==
    /\ \E can_id \in QueryIds :
           dbc_call' = DbcCall("has_message", can_id, NoArg, NoArg,
                               HasMessage(dbc_parser, can_id))
    /\ UNCHANGED <<evaluator, library, dbc_parser, can_source, can_reader, caller, bus>>

\* get_signal_names(can_id)
GetSignalNamesCall ==
    /\ \E can_id \in QueryIds :
           dbc_call' = DbcCall("get_signal_names", can_id, NoArg, NoArg,
                               GetSignalNames(dbc_parser, can_id))
    /\ UNCHANGED <<evaluator, library, dbc_parser, can_source, can_reader, caller, bus>>

\* get_message_id_for_signal(signal_name)
GetMessageIdForSignalCall ==
    /\ \E name \in QueryNames :
           dbc_call' = DbcCall("get_message_id_for_signal", NoArg, NoArg, name,
                               GetMessageIdForSignal(dbc_parser, name))
    /\ UNCHANGED <<evaluator, library, dbc_parser, can_source, can_reader, caller, bus>>

DbcNext ==
    Parse \/ DecodeMessage \/ HasMessageCall \/ GetSignalNamesCall
        \/ GetMessageIdForSignalCall

SpecDBC == DbcInit /\ [][DbcNext]_vars

(***************************************************************************)
(* Wire decoder properties                                                 *)
(***************************************************************************)
\* The physical value of a raw pattern of the signal lies outside its [min, max].
Usable(sig, pattern) ==
    RawToPhys(sig, pattern) < sig.min \/ RawToPhys(sig, pattern) > sig.max

\* All bits of the signal set.
InvalidPattern(sig) == 2 ^ sig.bit_size - 1

\* All bits of the signal set, minus one.
UnavailablePattern(sig) == 2 ^ sig.bit_size - 2

\* The quality the stated order gives a raw value of a signal.
QualityInOrder(sig, raw) ==
    IF Usable(sig, InvalidPattern(sig)) /\ raw = InvalidPattern(sig) THEN STATUS_INVALID
    ELSE IF Usable(sig, UnavailablePattern(sig)) /\ raw = UnavailablePattern(sig)
    THEN STATUS_NOT_AVAILABLE
    ELSE IF RawToPhys(sig, raw) < sig.min \/ RawToPhys(sig, raw) > sig.max
    THEN STATUS_INVALID
    ELSE STATUS_VALID

\* C22: every signal decoded from a frame has the quality the order gives it:
\* INVALID if its invalid sentinel (all bits set) is usable and raw equals it,
\* otherwise NOT_AVAILABLE if its unavailable sentinel (all bits set minus one)
\* is usable and raw equals it, otherwise INVALID if the physical value lies
\* outside [min, max], otherwise VALID; a sentinel being usable exactly when the
\* physical value of its pattern lies outside [min, max].
C22_AsStated ==
    dbc_call.op = "decode" =>
        \A i \in DOMAIN dbc_call.result :
            dbc_call.result[i].status =
                QualityInOrder(dbc_call.result[i].signal, dbc_call.result[i].raw)

\* C23: every signal decoded from a frame is VALID if and only if its raw value
\* is neither its invalid sentinel nor its unavailable sentinel and its
\* physical value lies within [min, max].
C23_AsStated ==
    dbc_call.op = "decode" =>
        \A i \in DOMAIN dbc_call.result :
            LET u == dbc_call.result[i]
                sig == u.signal
            IN  u.status = STATUS_VALID <=>
                    /\ ~(Usable(sig, InvalidPattern(sig)) /\ u.raw = InvalidPattern(sig))
                    /\ ~(Usable(sig, UnavailablePattern(sig))
                            /\ u.raw = UnavailablePattern(sig))
                    /\ u.value >= sig.min
                    /\ u.value <= sig.max

\* C24: the operations that take an identifier agree with each other: decode
\* selects a message for an id iff has_message says the id has one, and the id
\* get_message_id_for_signal gives for a signal of the database has a message
\* whose signal names include that signal.
C24_AsStated ==
    dbc_parser.parsed =>
        /\ dbc_call.op = "has_message" =>
              (dbc_call.result <=>
                  \E data \in Payloads :
                      DecodeMessageAsUpdates(dbc_parser, dbc_call.id, data) # <<>>)
        /\ (dbc_call.op = "get_message_id_for_signal" /\ dbc_call.result # NoId) =>
              /\ HasMessage(dbc_parser, dbc_call.result)
              /\ dbc_call.name \in Range(GetSignalNames(dbc_parser, dbc_call.result))

(***************************************************************************)
(* CANSignalSource and SocketCANReader: the bus ingress                    *)
(***************************************************************************)
\* const size_t max_batch_size = 100
max_batch_size == 100

\* A frame on the bus: the identifier as the socket delivers it, flag bits
\* included, and its payload.
Frame(id, data) == [id |-> id, data |-> data]

\* No frame handled yet.
NoFrame == [frame |-> <<>>, decoded |-> <<>>, enqueued |-> <<>>]

\* handle_can_frame(frame): the updates it enqueues, in order.  frame.id is the
\* identifier after read_loop stripped its flag bits.
RECURSIVE ConvertUpdates(_, _, _)
ConvertUpdates(source, dbc_updates, i) ==
    IF i > Len(dbc_updates) THEN <<>>
    ELSE (IF dbc_updates[i].dbc_signal_name \in DOMAIN source.dbc_to_signal_name_
          THEN <<[signal_name |-> source.dbc_to_signal_name_[dbc_updates[i].dbc_signal_name],
                  value |-> dbc_updates[i].value,
                  status |-> STATUS_VALID]>>
          ELSE <<>>) \o ConvertUpdates(source, dbc_updates, i + 1)

HandleCanFrame(source, parser, frame) ==
    IF frame.id \notin source.required_can_ids_ THEN <<>>
    ELSE ConvertUpdates(source, DecodeMessageAsUpdates(parser, frame.id, frame.data), 1)

\* A stop() that acts on any source.
StopGuardAlways(source) == TRUE

\* stop() acts only on a running source.
StopGuard(source) == source.running_

\* The DBC names the mappings of the source name, and the identifiers of their
\* messages.
DbcToSignalName(mappings_) ==
    LET dbc_names == {mappings_[n].source.name :
                        n \in {m \in DOMAIN mappings_ : mappings_[m].source.type = "dbc"}}
    IN  [d \in dbc_names |->
            CHOOSE n \in DOMAIN mappings_ :
                mappings_[n].source.type = "dbc" /\ mappings_[n].source.name = d]

RequiredCanIds(parser, dbc_names) ==
    {GetMessageIdForSignal(parser, d) : d \in dbc_names} \ {NoId}

(***************************************************************************)
(* SpecIngress: one source, its reader thread and its caller               *)
(***************************************************************************)
\* The database of the source: S has usable sentinels, T has none and sits in a
\* message with an extended id.
IngressNetwork ==
    <<[id |-> CanId({}, 1), signals |-> <<Signal("S", 2, 1, 0, 0, 1)>>],
      [id |-> CanId({"EFF"}, 3), signals |-> <<Signal("T", MaxBitSize, 1, 0, 0, 2 ^ MaxBitSize - 1)>>]>>

\* The mappings a source is constructed with: external name to source.
SourceMappings ==
    {[n \in {"A"} |-> [source |-> DbcSource("S")]],
     [n \in {"A", "B"} |-> [source |-> DbcSource(IF n = "A" THEN "S" ELSE "T")]],
     [n \in {"A"} |-> [source |-> DbcSource(UnknownName)]],
     [n \in {"A"} |-> [source |-> NoSource]]}

\* The frames that may arrive.
BusFrames ==
    {Frame(CanId({}, 1), <<d>>) : d \in 1..3}
        \cup {Frame(CanId({"EFF"}, 3), <<1>>), Frame(CanId({}, 2), <<1>>)}

\* At most MaxFrames frames arrive, or a burst longer than a batch.
MaxFrames == 2

BusScripts == SeqsUpTo(BusFrames, MaxFrames)

Burst == [i \in 1..(max_batch_size + 2) |-> Frame(CanId({}, 1), <<1>>)]

IngressConstructed(mappings_, script) ==
    /\ EvaluatorIdle
    /\ LibraryIdle
    /\ dbc_parser = [network |-> IngressNetwork, parsed |-> FALSE, signal_info_ |-> <<>>]
    /\ dbc_call = DbcCall("none", NoArg, NoArg, NoArg, NoArg)
    /\ can_source = [mappings_ |-> mappings_,
                     initialized |-> FALSE,
                     running_ |-> FALSE,
                     can_reader_ |-> FALSE,
                     reader_thread_ |-> "none",
                     dbc_to_signal_name_ |-> <<>>,
                     required_can_ids_ |-> {},
                     signal_queue_ |-> <<>>,
                     enqueued |-> 0,
                     handled |-> NoFrame,
                     destroyed |-> FALSE]
    /\ can_reader = [socket_open |-> FALSE, should_stop_ |-> FALSE, pc |-> "none",
                     stop_written |-> FALSE, raced |-> FALSE]
    /\ caller = [pc |-> "idle", updates |-> <<>>, returned |-> 0,
                 in_destructor |-> FALSE, stop_calls |-> 0, joins |-> 0]
    /\ bus = script

IngressInit ==
    \E mappings_ \in SourceMappings, script \in BusScripts :
        IngressConstructed(mappings_, script)

BurstInit ==
    \/ IngressInit
    \/ IngressConstructed([n \in {"A"} |-> [source |-> DbcSource("S")]], Burst)

\* initialize(): parse the database, build the tables, and, if there is an id
\* to monitor, open the reader and start its thread.  open() may fail.
Initialize ==
    /\ caller.pc = "idle"
    /\ ~can_source.initialized
    /\ ~can_source.destroyed
    /\ \E parsed \in {[dbc_parser EXCEPT
                          !.parsed = TRUE,
                          !.signal_info_ = ParseSignals(NetworkSignals(dbc_parser.network),
                                                        1, <<>>)]},
          opened \in BOOLEAN :
         \E table \in {DbcToSignalName(can_source.mappings_)} :
         \E ids \in {RequiredCanIds(parsed, DOMAIN table)} :
            /\ ids = {} => opened
            /\ dbc_parser' = parsed
            /\ can_source' = [can_source EXCEPT
                   !.initialized = TRUE,
                   !.dbc_to_signal_name_ = table,
                   !.required_can_ids_ = ids,
                   !.can_reader_ = ids # {},
                   !.running_ = ids # {} /\ opened,
                   !.reader_thread_ = IF ids # {} /\ opened THEN "running" ELSE "none"]
            /\ can_reader' = [can_reader EXCEPT
                   !.socket_open = ids # {} /\ opened,
                   !.pc = IF ids # {} /\ opened THEN "entry" ELSE "none"]
    /\ UNCHANGED <<evaluator, library, dbc_call, caller, bus>>

\* read_loop(), on entry: return if the socket is not open, else
\* should_stop_ = false.  The write races with a stop() that came first.
ReaderEnter ==
    /\ can_reader.pc = "entry"
    /\ \E flag \in (IF can_reader.stop_written THEN BOOLEAN ELSE {FALSE}) :
           can_reader' = IF ~can_reader.socket_open
                         THEN [can_reader EXCEPT !.pc = "done"]
                         ELSE [can_reader EXCEPT
                                  !.should_stop_ = flag,
                                  !.pc = "check",
                                  !.raced = @ \/ can_reader.stop_written]
    /\ UNCHANGED <<evaluator, library, dbc_parser, dbc_call, can_source, caller, bus>>

\* while (!should_stop_): the read of the plain bool gives either value once
\* stop() has written it without synchronisation.
ReaderCheck ==
    /\ can_reader.pc = "check"
    /\ \E seen \in (IF can_reader.stop_written THEN BOOLEAN
                    ELSE {can_reader.should_stop_}) :
           can_reader' = [can_reader EXCEPT
                             !.pc = IF seen THEN "done" ELSE "read",
                             !.raced = @ \/ can_reader.stop_written]
    /\ UNCHANGED <<evaluator, library, dbc_parser, dbc_call, can_source, caller, bus>>

\* read() returns a whole frame: strip the flag bits of its id and hand it to
\* handle_can_frame, which enqueues the updates of the mapped signals.
ReaderRead ==
    /\ can_reader.pc = "read"
    /\ bus # <<>>
    /\ \E frame \in {Frame(StripFlags(Head(bus).id), Head(bus).data)} :
       \E updates \in {HandleCanFrame(can_source, dbc_parser, frame)} :
           can_source' = [can_source EXCEPT
               !.signal_queue_ = @ \o [i \in DOMAIN updates |->
                                          [update |-> updates[i],
                                           seq |-> can_source.enqueued + i]],
               !.enqueued = @ + Len(updates),
               !.handled = [frame |-> frame,
                            decoded |-> IF frame.id \in can_source.required_can_ids_
                                        THEN DecodeMessageAsUpdates(dbc_parser, frame.id,
                                                                    frame.data)
                                        ELSE <<>>,
                            enqueued |-> updates]]
    /\ bus' = Tail(bus)
    /\ can_reader' = [can_reader EXCEPT !.pc = "check"]
    /\ UNCHANGED <<evaluator, library, dbc_parser, dbc_call, caller>>

\* read() fails or returns a short frame: continue.
ReaderReadError ==
    /\ can_reader.pc = "read"
    /\ can_reader' = [can_reader EXCEPT !.pc = "check"]
    /\ UNCHANGED <<evaluator, library, dbc_parser, dbc_call, can_source, caller, bus>>

\* A try_dequeue that takes the newest update of the queue.
TryDequeueNewest(queue) ==
    [update |-> queue[Len(queue)], rest |-> SubSeq(queue, 1, Len(queue) - 1)]

\* signal_queue_.try_dequeue(update) on a queue that is not empty: the oldest
\* update of the one producer.
TryDequeue(queue) == [update |-> Head(queue), rest |-> Tail(queue)]

\* poll(), on entry.
PollStart ==
    /\ caller.pc = "idle"
    /\ ~can_source.destroyed
    /\ caller' = [caller EXCEPT !.pc = "poll", !.updates = <<>>]
    /\ UNCHANGED <<evaluator, library, dbc_parser, dbc_call, can_source, can_reader, bus>>

\* poll(), one turn of its loop: dequeue an update while the batch is short of
\* max_batch_size and the queue gives one, else return the batch.
PollStep ==
    /\ caller.pc = "poll"
    /\ IF Len(caller.updates) < max_batch_size /\ can_source.signal_queue_ # <<>>
       THEN /\ caller' = [caller EXCEPT
                   !.updates = Append(@, TryDequeue(can_source.signal_queue_).update)]
            /\ can_source' = [can_source EXCEPT
                   !.signal_queue_ = TryDequeue(can_source.signal_queue_).rest]
       ELSE /\ caller' = [caller EXCEPT
                   !.pc = "idle",
                   !.updates = <<>>,
                   !.returned = @ + Len(caller.updates)]
            /\ UNCHANGED can_source
    /\ UNCHANGED <<evaluator, library, dbc_parser, dbc_call, can_reader, bus>>

\* stop(), called by the owner or by the destructor: on a running source,
\* running_ = false and can_reader_->stop(), then the join; else nothing.
Stop ==
    /\ caller.pc = "idle"
    /\ ~can_source.destroyed
    /\ \E in_destructor \in BOOLEAN :
        \E returns_to \in {IF in_destructor THEN "destroy" ELSE "idle"} :
        IF StopGuard(can_source)
        THEN /\ can_source' = [can_source EXCEPT !.running_ = FALSE]
             /\ can_reader' = IF can_source.can_reader_
                              THEN [can_reader EXCEPT
                                       !.should_stop_ = TRUE,
                                       !.stop_written = can_source.reader_thread_ = "running"]
                              ELSE can_reader
             /\ caller' = [caller EXCEPT
                    !.pc = IF can_source.reader_thread_ = "running" THEN "join"
                           ELSE returns_to,
                    !.in_destructor = in_destructor,
                    !.stop_calls = IF @ < 2 THEN @ + 1 ELSE @]
        ELSE /\ caller' = [caller EXCEPT
                    !.pc = returns_to,
                    !.in_destructor = in_destructor,
                    !.stop_calls = IF @ < 2 THEN @ + 1 ELSE @]
             /\ UNCHANGED <<can_source, can_reader>>
    /\ UNCHANGED <<evaluator, library, dbc_parser, dbc_call, bus>>

\* reader_thread_->join() returns once read_loop has returned, and stop()
\* returns.
StopJoin ==
    /\ caller.pc = "join"
    /\ can_reader.pc = "done"
    /\ can_source' = [can_source EXCEPT !.reader_thread_ = "joined"]
    /\ can_reader' = [can_reader EXCEPT !.stop_written = FALSE]
    /\ caller' = [caller EXCEPT
           !.pc = IF caller.in_destructor THEN "destroy" ELSE "idle",
           !.joins = @ + 1]
    /\ UNCHANGED <<evaluator, library, dbc_parser, dbc_call, bus>>

\* The rest of the destructor, after its stop(): the members go, and the
\* reader's destructor closes the socket.
Destruct ==
    /\ caller.pc = "destroy"
    /\ can_source' = [can_source EXCEPT !.destroyed = TRUE]
    /\ can_reader' = [can_reader EXCEPT !.socket_open = FALSE]
    /\ caller' = [caller EXCEPT !.pc = "idle"]
    /\ UNCHANGED <<evaluator, library, dbc_parser, dbc_call, bus>>

IngressNext ==
    Initialize \/ ReaderEnter \/ ReaderCheck \/ ReaderRead \/ ReaderReadError
        \/ PollStart \/ PollStep \/ Stop \/ StopJoin \/ Destruct

SpecIngress == IngressInit /\ [][IngressNext]_vars

SpecIngressBurst == BurstInit /\ [][IngressNext]_vars

\* The reader thread is scheduled, and a join whose thread has ended returns.
\* Nothing makes a frame arrive or a read fail.
SpecIngressLive ==
    /\ IngressInit
    /\ [][IngressNext]_vars
    /\ WF_vars(ReaderEnter \/ ReaderCheck \/ ReaderRead)
    /\ WF_vars(StopJoin \/ Destruct)

(***************************************************************************)
(* Bus ingress properties                                                  *)
(***************************************************************************)
\* The decoded updates of the handled frame whose signal has a mapping.
MappedUpdates ==
    SelectSeq(can_source.handled.decoded,
              LAMBDA u : u.dbc_signal_name \in DOMAIN can_source.dbc_to_signal_name_)

\* C25: the updates enqueued for a frame are, for every decoded signal that has
\* a mapping, the external signal name, the decoded value and the quality the
\* decoder gave the signal; a frame with an unsubscribed id and a signal without
\* a mapping enqueue nothing.
C25_AsStated ==
    can_source.handled # NoFrame =>
        /\ can_source.handled.frame.id \notin can_source.required_can_ids_ =>
              can_source.handled.enqueued = <<>>
        /\ can_source.handled.enqueued =
              [i \in DOMAIN MappedUpdates |->
                  [signal_name |->
                       can_source.dbc_to_signal_name_[MappedUpdates[i].dbc_signal_name],
                   value |-> MappedUpdates[i].value,
                   status |-> MappedUpdates[i].status]]

\* The updates a poll in progress holds, followed by those still queued.
Undelivered == caller.updates \o can_source.signal_queue_

\* C26: a poll returns at most max_batch_size updates, in the order of their
\* enqueue; the updates beyond the limit stay queued, and over the polls every
\* enqueued update is returned exactly once and in order: the updates not yet
\* returned are, in enqueue order, exactly those after the ones returned.
C26_PollOrder ==
    /\ Len(caller.updates) <= max_batch_size
    /\ \A undelivered \in {Undelivered} :
          /\ caller.returned + Len(undelivered) = can_source.enqueued
          /\ \A i \in DOMAIN undelivered : undelivered[i].seq = caller.returned + i

\* A poll holds a full batch while updates are still queued.
C26_Witness ==
    /\ caller.pc = "poll"
    /\ Len(caller.updates) = max_batch_size
    /\ can_source.signal_queue_ # <<>>

\* C27: once stop() has been called on a running source, the reader thread
\* eventually leaves its read loop and stop() returns with the thread joined
\* and the socket closed, whether or not another frame arrives.
C27_AsStated ==
    (caller.pc = "join")
        ~> (/\ caller.pc = "idle"
            /\ can_source.reader_thread_ = "joined"
            /\ ~can_reader.socket_open)

\* C28: a stop() on a source that is not running, be it a second call, the
\* destructor's call or a call on a source whose initialize() started no
\* reader, returns without joining and without changing the source, its reader
\* or its queue.
C28_Idempotent ==
    [][(Stop /\ ~can_source.running_) =>
          /\ UNCHANGED <<can_source, can_reader, dbc_parser, bus>>
          /\ caller'.pc \in {"idle", "destroy"}
          /\ caller'.joins = caller.joins]_vars

\* stop() was called a second time, after the call that joined the reader
\* thread.
C28_Witness ==
    /\ caller.stop_calls = 2
    /\ caller.joins = 1
    /\ can_source.reader_thread_ = "joined"
    /\ caller.pc = "idle"

\* C29: the reader thread and the caller never touch a memory location, the
\* stop flag included, that the other has written without synchronisation: the
\* reader thread never reads or writes should_stop_ after a stop() of the
\* caller wrote it while the thread was running.
C29_AsStated == ~can_reader.raced

(***************************************************************************)
(* Partial updates                                                         *)
(***************************************************************************)
\* C30: a derived node is not emitted in a call in which one of its
\* dependencies has no entry in the store, whatever its transform is.
C30_AsStated ==
    \A k \in DOMAIN vss_signals :
        \A i \in DOMAIN mappings[vss_signals[k].path].depends_on :
            mappings[vss_signals[k].path].depends_on[i] \in DOMAIN signal_values_

(***************************************************************************)
(* SpecLua: one signal's transform calling a built-in operator over time   *)
(***************************************************************************)
\* Time passes in steps of LuaStepMs milliseconds, MaxLuaSteps times; the
\* transform is evaluated at most MaxLuaCalls times.
LuaStepMs == 2500

MaxLuaSteps == 3

MaxLuaCalls == 4

\* The duration handed to sustained_condition.
SustainMs == 2 * LuaStepMs

\* The operator the transform of the signal calls.
LuaFunctions == {"lowpass", "sustained_condition", "rising_edge", "falling_edge"}

\* The samples lowpass is fed, Nil for an empty input.
LowpassInputs == {Nil} \cup Readings

\* The values the conditions and the edge detectors are fed.
LuaValues == {LuaNil, LuaFalse, LuaTrue, "5"}

LuaInit ==
    /\ EvaluatorIdle
    /\ IngressIdle
    /\ type_call = <<>>
    /\ \E fn \in LuaFunctions :
           lua_lib = [fn |-> fn, st |-> FreshState, current_time |-> 0, os_clock |-> 0,
                      steps |-> 0, calls |-> <<>>]

\* One evaluation of the transform: what it was given, when, and what the
\* operator returned.
LuaCall(arg, e) ==
    [lua_lib EXCEPT
        !.st = e.st,
        !.calls = Append(@, [arg |-> arg, result |-> e.result,
                             at |-> lua_lib.current_time])]

\* lowpass(x, 1, STRATEGY_HOLD_TIMEOUT)
CallLowpass ==
    /\ lua_lib.fn = "lowpass"
    /\ Len(lua_lib.calls) < MaxLuaCalls
    /\ \E value \in LowpassInputs :
           lua_lib' = LuaCall(value, Lowpass(value, 1, STRATEGY_HOLD_TIMEOUT, lua_lib.st,
                                             lua_lib.current_time))
    /\ UNCHANGED <<evaluator, ingress, type_call>>

\* sustained_condition(cond, SustainMs)
CallSustainedCondition ==
    /\ lua_lib.fn = "sustained_condition"
    /\ Len(lua_lib.calls) < MaxLuaCalls
    /\ \E condition \in LuaValues :
           lua_lib' = LuaCall(condition,
                              SustainedCondition(condition, SustainMs, lua_lib.st,
                                                 SustainedClock(lua_lib.current_time,
                                                                lua_lib.os_clock)))
    /\ UNCHANGED <<evaluator, ingress, type_call>>

\* rising_edge(x)
CallRisingEdge ==
    /\ lua_lib.fn = "rising_edge"
    /\ Len(lua_lib.calls) < MaxLuaCalls
    /\ \E value \in LuaValues : lua_lib' = LuaCall(value, RisingEdge(value, lua_lib.st))
    /\ UNCHANGED <<evaluator, ingress, type_call>>

\* falling_edge(x)
CallFallingEdge ==
    /\ lua_lib.fn = "falling_edge"
    /\ Len(lua_lib.calls) < MaxLuaCalls
    /\ \E value \in LuaValues : lua_lib' = LuaCall(value, FallingEdge(value, lua_lib.st))
    /\ UNCHANGED <<evaluator, ingress, type_call>>

\* Time passes between two evaluations: _current_time follows the steady clock,
\* os.clock() the CPU time the process used meanwhile, which is anything from
\* none of the interval to all of it.
LuaTimePasses ==
    /\ lua_lib.steps < MaxLuaSteps
    /\ \E cpu \in {0, LuaStepMs} :
           lua_lib' = [lua_lib EXCEPT
                          !.steps = @ + 1,
                          !.current_time = @ + LuaStepMs,
                          !.os_clock = @ + cpu]
    /\ UNCHANGED <<evaluator, ingress, type_call>>

LuaNext ==
    CallLowpass \/ CallSustainedCondition \/ CallRisingEdge \/ CallFallingEdge
        \/ LuaTimePasses

SpecLua == LuaInit /\ [][LuaNext]_vars

(***************************************************************************)
(* Built-in operator properties                                            *)
(***************************************************************************)
\* The first call of the run of empty inputs that call i belongs to.
RunStart(calls, i) ==
    CHOOSE j \in 1..i :
        /\ \A k \in j..i : calls[k].arg = Nil
        /\ j = 1 \/ calls[j - 1].arg # Nil

\* The output of the last call before call i that had a sample, Nil if none.
LastValidOutput(calls, i) ==
    LET sampled == {j \in 1..(i - 1) : calls[j].arg # Nil}
    IN  IF sampled = {} THEN Nil
        ELSE calls[CHOOSE j \in sampled : \A k \in sampled : k <= j].result

\* C31: with STRATEGY_HOLD_TIMEOUT, on an empty input lowpass returns its last
\* valid output while less than DEFAULT_HOLD_TIMEOUT seconds of _current_time
\* have passed since the first empty input of the run, and empty from then on;
\* a sample ends the run, so that the next run is timed afresh.
C31_HoldTimeout ==
    lua_lib.fn = "lowpass" =>
        \A calls \in {lua_lib.calls} :
            \A i \in DOMAIN calls :
                calls[i].arg = Nil =>
                    calls[i].result =
                        IF calls[i].at - calls[RunStart(calls, i)].at
                               < DEFAULT_HOLD_TIMEOUT * 1000
                        THEN LastValidOutput(calls, i)
                        ELSE Nil

\* A run of empty inputs that was held and then ran out, followed by a sample.
C31_Witness ==
    /\ lua_lib.fn = "lowpass"
    /\ Len(lua_lib.calls) = 4
    /\ lua_lib.calls[1].arg # Nil
    /\ lua_lib.calls[2].arg = Nil /\ lua_lib.calls[2].result = lua_lib.calls[1].result
    /\ lua_lib.calls[3].arg = Nil /\ lua_lib.calls[3].result = Nil
    /\ lua_lib.calls[4].arg # Nil

\* C32: sustained_condition(cond, ms) returns true in an evaluation if and only
\* if cond was truthy in every evaluation since some evaluation that took
\* place at least ms milliseconds of _current_time earlier; a falsy evaluation
\* restarts the measurement.
C32_AsStated ==
    lua_lib.fn = "sustained_condition" =>
        \A calls \in {lua_lib.calls} :
            \A i \in DOMAIN calls :
                calls[i].result = LuaTrue <=>
                    \E j \in 1..i :
                        /\ calls[i].at - calls[j].at >= SustainMs
                        /\ \A k \in j..i : Truthy(calls[k].arg)


\* C33: rising_edge(x) and falling_edge(x) return a boolean on every call: true
\* exactly on the call where x went from falsy to truthy (from truthy to falsy)
\* relative to the previous call of the node, false on every other call, the
\* first call included.
C33_AsStated ==
    lua_lib.fn \in {"rising_edge", "falling_edge"} =>
        \A calls \in {lua_lib.calls} :
            \A i \in DOMAIN calls :
                /\ calls[i].result \in {LuaTrue, LuaFalse}
                /\ calls[i].result = LuaTrue <=>
                       /\ i > 1
                       /\ IF lua_lib.fn = "rising_edge"
                          THEN ~Truthy(calls[i - 1].arg) /\ Truthy(calls[i].arg)
                          ELSE Truthy(calls[i - 1].arg) /\ ~Truthy(calls[i].arg)

(***************************************************************************)
(* VSSTypeHelper and LuaMapper: value conversions                          *)
(***************************************************************************)
\* A floating-point value is held as a whole number of FloatUnit-ths, so that
\* 1.5 is 15 * 10^6 and 0.1234567 is 1234567.
FloatUnit == 10 ^ 7

\* A Value of the variant: its alternative and its content.  wraps counts the
\* multiples of 2^width a cast to an unsigned type added.
TypedValue(type, v) == [type |-> type, v |-> v, wraps |-> 0]

\* A std::string, or a Lua string, by its text.
StringValue(text) == [type |-> "string", text |-> text]

\* Texts: the decimal digits of an integer, a number with a decimal point, or
\* some other word.
IntText(n) == [kind |-> "int", n |-> n]

DecimalText(n) == [kind |-> "decimal", n |-> n]

WordText(w) == [kind |-> "word", w |-> w]

IntegerTypes == {"int32", "int64", "uint32", "uint64"}

FloatTypes == {"float", "double"}

ValueTypes == IntegerTypes \cup FloatTypes \cup {"bool", "string"}

\* n / d rounded to the nearest whole number, halves away from zero.
RoundDiv(n, d) == IF n >= 0 THEN (2 * n + d) \div (2 * d) ELSE 0 - ((d - 2 * n) \div (2 * d))

\* n / d truncated toward zero.
TruncDiv(n, d) == IF n >= 0 THEN n \div d ELSE 0 - ((0 - n) \div d)

\* The values a float holds exactly, among those of this model: the halves.
FloatGrid == FloatUnit \div 2

\* static_cast of an integral number i to an integer type.
CastToInteger(i, type) ==
    [type |-> type, v |-> i,
     wraps |-> IF type \in {"uint32", "uint64"} /\ i < 0 THEN 1 ELSE 0]

\* static_cast of a floating-point number (in FloatUnit-ths) to float or double.
CastToFloat(n, type) ==
    TypedValue(type, IF type = "float" THEN RoundDiv(n, FloatGrid) * FloatGrid ELSE n)

\* std::to_string of an integer and of a floating-point number ("%f": six
\* decimals).
IntToString(i) == IntText(i)

FloatToString(n) == DecimalText(RoundDiv(n, 10) * 10)

\* from_typed_value when the source is a number: i is its integral value when
\* the source is an integer, n its value in FloatUnit-ths.
FromNumber(is_integer, i, n, target_type) ==
    CASE target_type \in IntegerTypes ->
            CastToInteger(IF is_integer THEN i ELSE TruncDiv(n, FloatUnit), target_type)
      [] target_type \in FloatTypes -> CastToFloat(n, target_type)
      [] target_type = "bool" -> TypedValue("bool", IF n # 0 THEN 1 ELSE 0)
      [] target_type = "string" ->
            StringValue(IF is_integer THEN IntToString(i) ELSE FloatToString(n))

\* VSSTypeHelper::from_typed_value(value, target_type)
FromTypedValue(value, target_type) ==
    CASE value.type \in IntegerTypes ->
            FromNumber(TRUE, value.v, value.v * FloatUnit, target_type)
      [] value.type \in FloatTypes ->
            FromNumber(FALSE, 0, value.v, target_type)
      [] value.type = "string" ->
            CASE target_type \in IntegerTypes \cup FloatTypes ->
                    CASE value.text.kind = "decimal" ->
                            FromNumber(FALSE, 0, value.text.n, target_type)
                      [] value.text.kind = "int" ->
                            FromNumber(TRUE, value.text.n, value.text.n * FloatUnit,
                                       target_type)
                      [] OTHER -> FromNumber(FALSE, 0, 0, target_type)
              [] target_type = "bool" ->
                    TypedValue("bool", IF value.text \in {WordText("true"), IntText(1)}
                                       THEN 1 ELSE 0)
              [] OTHER -> value
      [] OTHER -> value

\* A Lua value: nil, boolean, integer, float (in FloatUnit-ths) or string.
LuaValue(type, v) == [type |-> type, v |-> v]

LuaString(text) == [type |-> "string", text |-> text]

\* std::nullopt
NoText == [kind |-> "none"]

\* LuaMapper::get_lua_variable: the text of the value, nullopt for nil.
GetLuaVariable(value) ==
    CASE value.type = "nil" -> NoText
      [] value.type = "string" -> value.text
      [] value.type = "integer" -> IntText(value.v)
      [] value.type = "float" -> DecimalText(value.v)
      [] value.type = "boolean" -> WordText(IF value.v = 1 THEN "true" ELSE "false")

\* process_node's write-back of the text read from signal_values[name]: an
\* int64 if std::stod reads an integral number, a double if it reads another
\* number, the string itself if std::stod throws.
NoValue == [type |-> "monostate"]

StoreProvided(provided_value) ==
    CASE provided_value = NoText -> NoValue
      [] provided_value.kind = "int" -> TypedValue("int64", provided_value.n)
      [] provided_value.kind = "decimal" ->
            IF provided_value.n % FloatUnit = 0
            THEN TypedValue("int64", provided_value.n \div FloatUnit)
            ELSE TypedValue("double", provided_value.n)
      [] OTHER -> StringValue(provided_value)

\* VSSTypeHelper::push_value_to_lua
PushValueToLua(value) ==
    CASE value.type = "monostate" -> LuaValue("nil", 0)
      [] value.type = "bool" -> LuaValue("boolean", value.v)
      [] value.type \in IntegerTypes -> LuaValue("integer", value.v)
      [] value.type \in FloatTypes -> LuaValue("float", value.v)
      [] value.type = "string" -> LuaString(value.text)

(***************************************************************************)
(* SpecTypes: conversions of small values                                  *)
(***************************************************************************)
\* The integers and the floating-point numbers (in FloatUnit-ths) converted.
SmallIntegers == {0 - 1, 0, 1, 2}

SmallFloats == {0, FloatUnit, 3 * FloatGrid, 0 - 3 * FloatGrid, 1234567}

NumericValues ==
    {TypedValue(type, i) : type \in {"int32", "int64"}, i \in SmallIntegers}
        \cup {TypedValue(type, i) : type \in {"uint32", "uint64"}, i \in SmallIntegers \ {0 - 1}}
        \cup {TypedValue("double", n) : n \in SmallFloats}
        \cup {TypedValue("float", n) : n \in {m \in SmallFloats : m % FloatGrid = 0}}

\* The number a numeric value stands for, in FloatUnit-ths.
NumberOf(value) == IF value.type \in IntegerTypes THEN value.v * FloatUnit ELSE value.v

\* Whether target_type can represent the numeric value.
CanRepresent(value, target_type) ==
    CASE target_type \in {"int32", "int64"} -> NumberOf(value) % FloatUnit = 0
      [] target_type \in {"uint32", "uint64"} ->
            NumberOf(value) % FloatUnit = 0 /\ NumberOf(value) >= 0
      [] target_type = "float" -> NumberOf(value) % FloatGrid = 0
      [] target_type = "double" -> TRUE
      [] target_type = "bool" -> NumberOf(value) \in {0, FloatUnit}
      [] target_type = "string" -> TRUE

\* The values a transform provides.
ProvidedValues ==
    {LuaValue("boolean", b) : b \in {0, 1}}
        \cup {LuaValue("integer", i) : i \in SmallIntegers}
        \cup {LuaValue("float", n) : n \in SmallFloats}
        \cup {LuaString(t) : t \in {WordText("abc"), WordText("true"), IntText(12),
                                    DecimalText(3 * FloatGrid)}}

NoTypeCall == [op |-> "none"]

TypesInit ==
    /\ EvaluatorIdle
    /\ IngressIdle
    /\ lua_lib = <<>>
    /\ type_call = NoTypeCall

\* from_typed_value(from_typed_value(v, T'), T) for a numeric v of type T and
\* a T' that can represent it.
Coerce ==
    /\ \E value \in NumericValues, target_type \in ValueTypes :
        /\ CanRepresent(value, target_type)
        /\ \E there \in {FromTypedValue(value, target_type)} :
               type_call' = [op |-> "coerce", value |-> value, target_type |-> target_type,
                             there |-> there,
                             back |-> FromTypedValue(there, value.type)]
    /\ UNCHANGED <<evaluator, ingress, lua_lib>>

\* A transform provides a value; process_node writes it back to the store, and
\* setup_node_context pushes it into deps[name] of a dependent.
ProvideAndRead ==
    /\ \E provided \in ProvidedValues :
       \E stored \in {StoreProvided(GetLuaVariable(provided))} :
           type_call' = [op |-> "provide", provided |-> provided, stored |-> stored,
                         read |-> PushValueToLua(stored)]
    /\ UNCHANGED <<evaluator, ingress, lua_lib>>

TypesNext == Coerce \/ ProvideAndRead

SpecTypes == TypesInit /\ [][TypesNext]_vars

(***************************************************************************)
(* Conversion properties                                                   *)
(***************************************************************************)
\* C34: for a numeric value v of type T and a target type T' that can
\* represent it, coerce(coerce(v, T'), T) equals v.
C34_AsStated ==
    type_call.op = "coerce" => type_call.back = type_call.value

\* C37: the value a dependent reads through deps[name] equals the value the
\* transform provided, with the same type: a boolean stays a boolean, a string
\* a string, and a number keeps its value.
C37_AsStated ==
    type_call.op = "provide" =>
        IF type_call.provided.type \in {"integer", "float"}
        THEN /\ type_call.read.type \in {"integer", "float"}
             /\ (IF type_call.read.type = "integer" THEN type_call.read.v * FloatUnit
                 ELSE type_call.read.v)
                = (IF type_call.provided.type = "integer"
                   THEN type_call.provided.v * FloatUnit
                   ELSE type_call.provided.v)
        ELSE type_call.read = type_call.provided

\* C35: whenever an input node's transform executes, x is bound to the value
\* of the most recent update received for that input, or to empty if that
\* update's quality was not VALID; also when the node is re-executed by its
\* periodic trigger without a new update.
C35_AsStated ==
    \A i \in DOMAIN executions :
        LET c == executions[i].call
        IN  (c.is_input /\ c.kind = "Code" /\ c.node \in DOMAIN last_rx) =>
                c.x = (IF last_rx[c.node].quality = STATUS_VALID
                       THEN last_rx[c.node].value ELSE Nil)

\* C36: an execution whose transform returns an empty result does not modify
\* the node's entry in the authoritative store: the entry is not overwritten
\* with a value provided in an earlier execution, and its quality is not set
\* to VALID.
C36_AsStated ==
    \A i \in DOMAIN executions :
        LET c == executions[i].call
        IN  (c.has_result /\ c.value = Nil) => c.entry_after = c.entry_before

\* C38: if a phase-2 re-evaluation changes a node's stored value, every
\* dependent of that node is re-executed with the new value no later than the
\* next call of process_signal_updates, even if that call receives no updates.
C38_AsStated ==
    [][(~returned /\ returned') =>
          \A p \in phase2_changes :
              \E j \in DOMAIN executions' : executions'[j].call.node = p[2]]_vars

\* C39: when process_signal_updates returns, every node has has_new_data and
\* needs_periodic_update false, whatever the batch held and whether or not
\* transforms failed; every node whose dirty bit was set by the batch ran in
\* the execute pass of that call.
C39_FlagsConsumed ==
    returned =>
        /\ \A n \in DOMAIN node_rt :
               ~node_rt[n].has_new_data /\ ~node_rt[n].needs_periodic_update
        /\ \A k \in DOMAIN batch :
               (batch[k].signal_name \in Range(dag.nodes)
                    /\ IsInputSignal(mappings, batch[k].signal_name)) =>
                   \E i \in DOMAIN ExecutePassRecords :
                       /\ ExecutePassRecords[i].call.node = batch[k].signal_name
                       /\ ExecutePassRecords[i].rt_before.has_new_data

\* A call in which a transform raised on a node whose dirty bit was set, and a
\* node ran on its periodic trigger.
C39_Witness ==
    /\ returned
    /\ \E i \in DOMAIN ExecutePassRecords :
           /\ ~ExecutePassRecords[i].call.has_result
           /\ ExecutePassRecords[i].rt_before.has_new_data
    /\ \E i \in DOMAIN ExecutePassRecords :
           /\ ExecutePassRecords[i].periodic
           /\ ExecutePassRecords[i].rt_before.needs_periodic_update

(***************************************************************************)
(* Stop requests                                                           *)
(***************************************************************************)
\* C40: a stop() request issued after initialize() returned true is never
\* lost: for every interleaving of the caller with the start-up of the reader
\* thread, no stop() waits in the join while the reader thread is in its loop
\* with should_stop_ false.
C40_AsStated ==
    ~(/\ caller.pc = "join"
      /\ can_reader.pc \in {"check", "read"}
      /\ ~can_reader.should_stop_)

====
